---------------------------- MODULE Spec2Model ----------------------------
(***************************************************************************)
(* A model of the data-structures toolkit: the chained hash Map            *)
(* (structures/map.py), the binary-heap PriorityQueue                      *)
(* (structures/pqueue.py), the Entry pre-hash (structures/entry.py), the   *)
(* BloomFilter (structures/bloom_filter.py) and the algorithms built on    *)
(* them (algorithms/pathfinding.py, algorithms/problems.py).               *)
(*                                                                         *)
(* The hash universe, the hash prime, the coefficient range and the        *)
(* capacity schedule are scaled down from the source's values (2^32-1,     *)
(* 4294967311, [1000, p], 557 and the prime list) so that resizes and      *)
(* collisions happen within a handful of keys; the code's arithmetic is    *)
(* kept as written.                                                        *)
(***************************************************************************)
EXTENDS Integers, Sequences, FiniteSets, TLC

VARIABLES
    \* ---- Map (structures/map.py) ----
    buckets,        \* self._buckets : 0..capacity-1 -> bucket
    capacity,       \* self._capacity
    size,           \* self._size
    load_factor,    \* self._load_factor, the fraction <<numerator, denominator>>
    resizes_done,   \* self._resizes_done
    a, b,           \* self._a, self._b, fixed at construction
    \* ---- observation of the last Map operation ----
    op,             \* [name, key, value] of the last call
    ret,            \* what the last call returned
    rz,             \* the resizes the last call ran: <<[before, live, after, size]>>
    keys,           \* the array the last get_keys call returned
    shadow,         \* key -> value of the last insert, None after remove / never inserted
    \* ---- PriorityQueue (structures/pqueue.py) ----
    arr,            \* self._arr, the heap array (index i of the code is arr[i + 1])
    max_priority,   \* self._max_priority
    \* ---- observation of the queue's use ----
    pq_phase,       \* "open": usable; "new": waiting for ip_build; "built": after ip_build
    given,          \* the entries handed to insert / insert_fifo so far, in call order
    removed,        \* the entries remove_min has returned so far, in call order
    pret,           \* what the last remove_min / get_min_* call returned
    pq_op,          \* the name of the last call on the queue
    input_list,     \* the array ip_build is going to take over
    \* ---- a second queue, over the same entries, that gets sorted ----
    arr2,           \* its self._arr
    phase2,         \* "new", "built" (after ip_build), "sorted" (after sort)
    input_list2,    \* the array its ip_build is going to take over
    \* ---- BloomFilter (structures/bloom_filter.py) ----
    bloom,          \* the filter's fields, the keys inserted so far and, when
                    \* the last call was contains, its key and its answer
    \* ---- the graph algorithms, one record of locals per running call ----
    bfs,            \* bfs_traversal (algorithms/pathfinding.py)
    dj,             \* dijkstra_traversal (algorithms/pathfinding.py)
    hf,             \* dora / huffman (algorithms/problems.py)
    cr              \* chain_reaction (algorithms/problems.py)

mapVars == <<buckets, capacity, size, load_factor, resizes_done, a, b>>
mapObs  == <<op, ret, rz, keys, shadow>>
pqVars  == <<arr, max_priority>>
pqObs   == <<pq_phase, given, removed, pret, pq_op, input_list>>
pq2Vars == <<arr2, phase2, input_list2>>
algVars == <<bloom, bfs, dj, hf, cr>>
vars    == <<buckets, capacity, size, load_factor, resizes_done, a, b,
             op, ret, rz, keys, shadow,
             arr, max_priority, pq_phase, given, removed, pret, pq_op, input_list,
             arr2, phase2, input_list2, bloom, bfs, dj, hf, cr>>

---------------------------------------------------------------------------
\* Bounds of the model

\* scaled stand-in for the initial number of buckets (557 in the source)
InitCapacity == 1
\* scaled stand-in for the hash universe modulus 2^32 - 1
HashUniverse == 7
\* scaled stand-in for the prime 4294967311 above the universe
HashP == 11
\* scaled stand-in for the lower end 1000 of the coefficient range
LoCoef == 10
\* values stored in the map are 1..NumValues
NumValues == 2
\* remove is not explored further once size has dropped to -MaxNegSize
MaxNegSize == 1
\* the queue is not grown beyond MaxHeap entries
MaxHeap == 4
\* priorities handed to insert are 0..MaxPriority
MaxPriority == 2
\* insert_fifo is not explored further once the counter has reached MaxFifo
MaxFifo == 5
\* the arrays handed to ip_build have at most MaxInput entries
MaxInput == 3

---------------------------------------------------------------------------
\* Program constants and input sets

\* Python's None, for values and return values (real values, priorities and
\* distances are >= 0)
None == -1

\* the multiplier of the accumulation pre-hash
HashMult == 53

\* the resize schedule self._primes (scaled: strictly ascending, each step
\* more than doubling, as 557 -> 1667 -> 4597 -> ... does)
Primes == <<InitCapacity + 1, 2 * InitCapacity + 3>>

\* keys, as the byte arrays object_to_byte_array gives for them
Keys == {<<1>>, <<2>>, <<1, 0>>}

Values == 1..NumValues

Coefs == LoCoef..HashP

Priorities == 0..MaxPriority

\* the arrays of Entry(priority, data) handed to ip_build
HeapInputs == UNION {[1..n -> [key : Priorities, value : Values]] : n \in 0..MaxInput}

---------------------------------------------------------------------------
\* Entry (structures/entry.py)

Entry(k, v) == [key |-> k, value |-> v]

RECURSIVE HashAcc(_, _)
\* the loop of Entry.get_hash: hash_value = (prime * hash_value + byte) % (2**32 - 1)
HashAcc(h, bytes) ==
    IF bytes = <<>> THEN h
    ELSE HashAcc((HashMult * h + Head(bytes)) % HashUniverse, Tail(bytes))

get_hash(k) == HashAcc(0, k)

---------------------------------------------------------------------------
\* DoublyLinkedList, as the Map uses it: a chain is the sequence of entries
\* from the head node on

insert_to_front(chain, e) == <<e>> \o chain

RECURSIVE find_and_remove_element(_, _)
\* removes the first entry equal (by key) to e, if any
find_and_remove_element(chain, e) ==
    IF chain = <<>> THEN <<>>
    ELSE IF Head(chain).key = e.key THEN Tail(chain)
    ELSE <<Head(chain)>> \o find_and_remove_element(Tail(chain), e)

RECURSIVE find_and_return_element(_, _)
\* the first entry equal (by key) to e
find_and_return_element(chain, e) ==
    IF Head(chain).key = e.key THEN Head(chain)
    ELSE find_and_return_element(Tail(chain), e)

\* a bucket slot: None, or a linked list (which may be empty)
NoneBucket == [present |-> FALSE, chain |-> <<>>]
DLL(chain) == [present |-> TRUE, chain |-> chain]

---------------------------------------------------------------------------
\* Map (structures/map.py), as operators on a map record
\*   [buckets, capacity, size, load_factor, resizes_done, ret, ok, rlog]
\* ret is the return value of the call, ok is FALSE once the prime schedule
\* has been overrun, rlog collects an observation per resize that ran.

\* the map of the current state
Self == [buckets |-> buckets, capacity |-> capacity, size |-> size,
         load_factor |-> load_factor, resizes_done |-> resizes_done,
         a |-> a, b |-> b,
         ret |-> None, ok |-> TRUE, rlog |-> <<>>]

\* Map(), with the coefficients its constructor drew
NewMap(ca, cb) ==
    [buckets |-> [i \in 0..(InitCapacity - 1) |-> NoneBucket],
     capacity |-> InitCapacity, size |-> 0,
     load_factor |-> <<0, 1>>, resizes_done |-> 0,
     a |-> ca, b |-> cb,
     ret |-> None, ok |-> TRUE, rlog |-> <<>>]

\* self._load_factor >= 0.9, on the fraction size / capacity
LoadHigh(lf) == 10 * lf[1] >= 9 * lf[2]

\* equality of two load factors as numbers
SameLoad(x, y) == x[1] * y[2] = y[1] * x[2]

_hash(m, e) == ((m.a * get_hash(e.key) + m.b) % HashP) % m.capacity

_exists(m, e) ==
    LET current_bucket == m.buckets[_hash(m, e)]
    IN  /\ current_bucket.present
        /\ \E i \in 1..Len(current_bucket.chain) : current_bucket.chain[i].key = e.key

__getitem__(m, k) ==
    LET entry_to_find == Entry(k, None)
        current_bucket == m.buckets[_hash(m, entry_to_find)]
    IN  IF _exists(m, entry_to_find)
        THEN find_and_return_element(current_bucket.chain, entry_to_find).value
        ELSE None

find(m, k) == __getitem__(m, k)

\* what find returns for every key
Lookup(m) == [k \in Keys |-> find(m, k)]

RECURSIVE UpdateFirst(_, _)
\* the loop of insert on an existing key: update_value on the first match, then return
UpdateFirst(chain, e) ==
    IF chain = <<>> THEN <<>>
    ELSE IF Head(chain).key = e.key THEN <<Entry(e.key, e.value)>> \o Tail(chain)
    ELSE <<Head(chain)>> \o UpdateFirst(Tail(chain), e)

RECURSIVE ChainsFrom(_, _, _)
\* the entries of buckets i..cap-1 in traversal order (bucket by bucket, head first)
ChainsFrom(bs, i, cap) ==
    IF i >= cap THEN <<>>
    ELSE bs[i].chain \o ChainsFrom(bs, i + 1, cap)

AllEntries(m) == ChainsFrom(m.buckets, 0, m.capacity)

\* Place, forgetting update_value on an existing key
Place_KeepsOldValue(m, e) ==
    LET hash_value == _hash(m, e)
        current_bucket == m.buckets[hash_value]
    IN  IF ~current_bucket.present THEN
            [m EXCEPT !.buckets[hash_value] = DLL(insert_to_front(<<>>, e)),
                      !.size = m.size + 1,
                      !.load_factor = <<m.size + 1, m.capacity>>,
                      !.ret = None]
        ELSE IF ~_exists(m, e) THEN
            [m EXCEPT !.buckets[hash_value] = DLL(insert_to_front(current_bucket.chain, e)),
                      !.size = m.size + 1,
                      !.load_factor = <<m.size + 1, m.capacity>>,
                      !.ret = None]
        ELSE
            [m EXCEPT !.ret = find_and_return_element(current_bucket.chain, e).value]

\* Place, putting the entry in front without looking for its key
Place_NoExistsCheck(m, e) ==
    LET hash_value == _hash(m, e)
        current_bucket == m.buckets[hash_value]
    IN  [m EXCEPT !.buckets[hash_value] = DLL(insert_to_front(current_bucket.chain, e)),
                  !.size = m.size + 1,
                  !.load_factor = <<m.size + 1, m.capacity>>,
                  !.ret = None]

\* the steps of insert after the resize check
Place(m, e) ==
    LET hash_value == _hash(m, e)
        current_bucket == m.buckets[hash_value]
    IN  IF ~current_bucket.present THEN
            [m EXCEPT !.buckets[hash_value] = DLL(insert_to_front(<<>>, e)),
                      !.size = m.size + 1,
                      !.load_factor = <<m.size + 1, m.capacity>>,
                      !.ret = None]
        ELSE IF ~_exists(m, e) THEN
            [m EXCEPT !.buckets[hash_value] = DLL(insert_to_front(current_bucket.chain, e)),
                      !.size = m.size + 1,
                      !.load_factor = <<m.size + 1, m.capacity>>,
                      !.ret = None]
        ELSE
            [m EXCEPT !.buckets[hash_value] = DLL(UpdateFirst(current_bucket.chain, e)),
                      !.ret = find_and_return_element(current_bucket.chain, e).value]

RECURSIVE insert(_, _)
RECURSIVE _resize(_)
RECURSIVE Rehash(_, _)

insert(m, e) ==
    LET m1 == IF LoadHigh(m.load_factor) THEN _resize(m) ELSE m
    IN  IF m1.ok THEN Place(m1, e) ELSE m1

\* the rehash loop of _resize: re-insert the old entries in traversal order
Rehash(m, entries) ==
    IF entries = <<>> \/ ~m.ok THEN m
    ELSE Rehash(insert(m, Head(entries)), Tail(entries))

\* _resize, forgetting to reset the size before replaying the inserts
_resize_NoSizeReset(m) ==
    IF m.resizes_done >= Len(Primes) THEN [m EXCEPT !.ok = FALSE]
    ELSE
        LET new_capacity == Primes[m.resizes_done + 1]
            fresh == [m EXCEPT !.capacity = new_capacity,
                               !.load_factor = <<m.size, new_capacity>>,
                               !.resizes_done = m.resizes_done + 1,
                               !.buckets = [i \in 0..(new_capacity - 1) |-> NoneBucket]]
            done == Rehash(fresh, AllEntries(m))
        IN  [done EXCEPT !.rlog = Append(done.rlog,
                [before |-> Lookup(m), live |-> Len(AllEntries(m)),
                 after |-> Lookup(done), size |-> done.size])]

\* _resize, taking the first prime of the schedule every time
_resize_FirstPrimeAgain(m) ==
    IF m.resizes_done >= Len(Primes) THEN [m EXCEPT !.ok = FALSE]
    ELSE
        LET new_capacity == Primes[1]
            fresh == [m EXCEPT !.capacity = new_capacity,
                               !.load_factor = <<m.size, new_capacity>>,
                               !.resizes_done = m.resizes_done + 1,
                               !.buckets = [i \in 0..(new_capacity - 1) |-> NoneBucket],
                               !.size = 0]
            done == Rehash(fresh, AllEntries(m))
        IN  [done EXCEPT !.rlog = Append(done.rlog,
                [before |-> Lookup(m), live |-> Len(AllEntries(m)),
                 after |-> Lookup(done), size |-> done.size])]

_resize(m) ==
    IF m.resizes_done >= Len(Primes) THEN [m EXCEPT !.ok = FALSE]
    ELSE
        LET new_capacity == Primes[m.resizes_done + 1]
            fresh == [m EXCEPT !.capacity = new_capacity,
                               !.load_factor = <<m.size, new_capacity>>,
                               !.resizes_done = m.resizes_done + 1,
                               !.buckets = [i \in 0..(new_capacity - 1) |-> NoneBucket],
                               !.size = 0]
            done == Rehash(fresh, AllEntries(m))
        IN  [done EXCEPT !.rlog = Append(done.rlog,
                [before |-> Lookup(m), live |-> Len(AllEntries(m)),
                 after |-> Lookup(done), size |-> done.size])]

insert_kv(m, k, v) == insert(m, Entry(k, v))

RECURSIVE UpdateAll(_, _)
\* the loop of __setitem__ on an existing key: update_value on every match
UpdateAll(chain, e) ==
    IF chain = <<>> THEN <<>>
    ELSE IF Head(chain).key = e.key
         THEN <<Entry(e.key, e.value)>> \o UpdateAll(Tail(chain), e)
         ELSE <<Head(chain)>> \o UpdateAll(Tail(chain), e)

__setitem__(m, k, v) ==
    LET entry == Entry(k, v)
        hash_value == _hash(m, entry)
        current_bucket == m.buckets[hash_value]
    IN  IF ~current_bucket.present THEN
            [m EXCEPT !.buckets[hash_value] = DLL(insert_to_front(<<>>, entry)),
                      !.size = m.size + 1,
                      !.load_factor = <<m.size + 1, m.capacity>>]
        ELSE IF ~_exists(m, entry) THEN
            [m EXCEPT !.buckets[hash_value] = DLL(insert_to_front(current_bucket.chain, entry)),
                      !.size = m.size + 1,
                      !.load_factor = <<m.size + 1, m.capacity>>]
        ELSE
            [m EXCEPT !.buckets[hash_value] = DLL(UpdateAll(current_bucket.chain, entry))]

\* remove, leaving the load factor as it was
remove_StaleLoadFactor(m, k) ==
    LET entry == Entry(k, None)
        hash_value == _hash(m, entry)
        current_bucket == m.buckets[hash_value]
    IN  IF current_bucket.present THEN
            [m EXCEPT !.buckets[hash_value] = DLL(find_and_remove_element(current_bucket.chain, entry)),
                      !.size = m.size - 1]
        ELSE m

remove(m, k) ==
    LET entry == Entry(k, None)
        hash_value == _hash(m, entry)
        current_bucket == m.buckets[hash_value]
    IN  IF current_bucket.present THEN
            [m EXCEPT !.buckets[hash_value] = DLL(find_and_remove_element(current_bucket.chain, entry)),
                      !.size = m.size - 1,
                      !.load_factor = <<m.size - 1, m.capacity>>]
        ELSE m

get_keys(m) == [i \in 1..Len(AllEntries(m)) |-> AllEntries(m)[i].key]

get_size(m) == m.size

---------------------------------------------------------------------------
\* The Map as a state machine

Call(name, k, v) == [name |-> name, key |-> k, value |-> v]

\* writes a map record back to the state
Store(m) ==
    /\ buckets' = m.buckets
    /\ capacity' = m.capacity
    /\ size' = m.size
    /\ load_factor' = m.load_factor
    /\ resizes_done' = m.resizes_done

\* the filter and the algorithms, while they are not the subject
Unused == [pc |-> "unused"]
BloomUnused == bloom = Unused
BfsUnused == bfs = Unused
DijkstraUnused == dj = Unused
DoraUnused == hf = Unused
ChainUnused == cr = Unused

\* the queues, untouched while the map is exercised
PQUnused ==
    /\ arr = <<>> /\ max_priority = 0
    /\ pq_phase = "open" /\ given = <<>> /\ removed = <<>> /\ pret = None
    /\ pq_op = "init"
    /\ input_list = <<>>
    /\ arr2 = <<>> /\ phase2 = "new" /\ input_list2 = <<>>

MapInit ==
    /\ PQUnused
    /\ BloomUnused /\ BfsUnused /\ DijkstraUnused /\ DoraUnused /\ ChainUnused
    /\ capacity = InitCapacity
    /\ size = 0
    /\ load_factor = <<0, 1>>
    /\ resizes_done = 0
    /\ buckets = [i \in 0..(InitCapacity - 1) |-> NoneBucket]
    /\ a \in Coefs
    /\ b \in Coefs
    /\ op = Call("init", <<>>, None)
    /\ ret = None
    /\ rz = <<>>
    /\ keys = <<>>
    /\ shadow = [k \in Keys |-> None]

Insert(k, v) ==
    \E m \in {insert(Self, Entry(k, v))} :
        /\ m.ok
        /\ Store(m)
        /\ op' = Call("insert", k, v)
        /\ ret' = m.ret
        /\ rz' = m.rlog
        /\ keys' = <<>>
        /\ shadow' = [shadow EXCEPT ![k] = v]
        /\ UNCHANGED <<a, b, pqVars, pqObs, pq2Vars, algVars>>

InsertKV(k, v) ==
    \E m \in {insert_kv(Self, k, v)} :
        /\ m.ok
        /\ Store(m)
        /\ op' = Call("insert_kv", k, v)
        /\ ret' = m.ret
        /\ rz' = m.rlog
        /\ keys' = <<>>
        /\ shadow' = [shadow EXCEPT ![k] = v]
        /\ UNCHANGED <<a, b, pqVars, pqObs, pq2Vars, algVars>>

SetItem(k, v) ==
    \E m \in {__setitem__(Self, k, v)} :
        /\ Store(m)
        /\ op' = Call("__setitem__", k, v)
        /\ ret' = None
        /\ rz' = <<>>
        /\ keys' = <<>>
        /\ shadow' = [shadow EXCEPT ![k] = v]
        /\ UNCHANGED <<a, b, pqVars, pqObs, pq2Vars, algVars>>

Remove(k) ==
    \E m \in {remove(Self, k)} :
        /\ m.size >= -MaxNegSize
        /\ Store(m)
        /\ op' = Call("remove", k, None)
        /\ ret' = None
        /\ rz' = <<>>
        /\ keys' = <<>>
        /\ shadow' = [shadow EXCEPT ![k] = None]
        /\ UNCHANGED <<a, b, pqVars, pqObs, pq2Vars, algVars>>

Find(k) ==
    /\ op' = Call("find", k, None)
    /\ ret' = find(Self, k)
    /\ rz' = <<>>
    /\ keys' = <<>>
    /\ UNCHANGED <<mapVars, shadow, pqVars, pqObs, pq2Vars, algVars>>

GetKeys ==
    /\ op' = Call("get_keys", <<>>, None)
    /\ ret' = None
    /\ rz' = <<>>
    /\ keys' = get_keys(Self)
    /\ UNCHANGED <<mapVars, shadow, pqVars, pqObs, pq2Vars, algVars>>

MapNext ==
    \/ \E k \in Keys, v \in Values : Insert(k, v)
    \/ \E k \in Keys, v \in Values : InsertKV(k, v)
    \/ \E k \in Keys, v \in Values : SetItem(k, v)
    \/ \E k \in Keys : Remove(k)
    \/ \E k \in Keys : Find(k)
    \/ GetKeys

SpecMap == MapInit /\ [][MapNext]_vars

---------------------------------------------------------------------------
\* PriorityQueue (structures/pqueue.py), as operators on the heap array

\* self._arr[i], with the code's 0-based index
At(A, i) == A[i + 1]

\* self._arr[i], self._arr[j] = self._arr[j], self._arr[i]
Swap(A, i, j) == [A EXCEPT ![i + 1] = A[j + 1], ![j + 1] = A[i + 1]]

_parent(ix) == IF ix = 0 THEN 0 ELSE (ix - 1) \div 2

\* the while loop of insert, never swapping
UpHeap_NoSwap(A, ix) == A

RECURSIVE UpHeap(_, _)
\* the while loop of insert: swap upwards until heap order is restored
UpHeap(A, ix) ==
    IF ix > 0 /\ At(A, ix).key < At(A, _parent(ix)).key
    THEN UpHeap(Swap(A, ix, _parent(ix)), _parent(ix))
    ELSE A

\* insert, leaving the new entry at the back
pq_insert_NoUpHeap(A, priority, data) == Append(A, Entry(priority, data))

pq_insert(A, priority, data) == UpHeap(Append(A, Entry(priority, data)), Len(A))

\* insert_fifo, forgetting to advance the counter
insert_fifo_NoIncrement(q, data) ==
    [arr |-> pq_insert(q.arr, q.max_priority, data),
     max_priority |-> q.max_priority]

\* on the queue [arr, max_priority]
insert_fifo(q, data) ==
    [arr |-> pq_insert(q.arr, q.max_priority, data),
     max_priority |-> q.max_priority + 1]

get_min_priority(A) == IF A = <<>> THEN None ELSE At(A, 0).key

get_min_value(A) == IF A = <<>> THEN None ELSE At(A, 0).value

RECURSIVE RemoveMinLoop_LeftOnly(_, _)
\* the sift-down of remove_min, never looking at the right child
RemoveMinLoop_LeftOnly(A, cur) ==
    LET left == (cur * 2) + 1
        smallest == IF left < Len(A) /\ At(A, cur).key > At(A, left).key
                    THEN left ELSE cur
    IN  IF smallest /= cur
        THEN RemoveMinLoop_LeftOnly(Swap(A, cur, smallest), smallest)
        ELSE A

RECURSIVE RemoveMinLoop(_, _)
\* the while True loop of remove_min: sift the moved entry down
RemoveMinLoop(A, cur) ==
    LET left == (cur * 2) + 1
        right == (cur * 2) + 2
        s1 == IF left < Len(A) /\ At(A, cur).key > At(A, left).key
              THEN left ELSE cur
        smallest == IF right < Len(A) /\ At(A, s1).key > At(A, right).key
                    THEN right ELSE s1
    IN  IF smallest /= cur
        THEN RemoveMinLoop(Swap(A, cur, smallest), smallest)
        ELSE A

\* remove_min, answering an empty queue with 0 in place of None
remove_min_EmptyReturnsZero(A) ==
    IF A = <<>> THEN [arr |-> A, ret |-> 0, result |-> <<>>]
    ELSE LET result == At(A, 0)
             moved == [A EXCEPT ![1] = At(A, Len(A) - 1)]
             shorter == SubSeq(moved, 1, Len(A) - 1)
         IN  [arr |-> RemoveMinLoop(shorter, 0),
              ret |-> result.value,
              result |-> <<Entry(result.key, result.value)>>]

\* gives the new array, the returned value and, in result, the entry taken out
remove_min(A) ==
    IF A = <<>> THEN [arr |-> A, ret |-> None, result |-> <<>>]
    ELSE LET result == At(A, 0)
             moved == [A EXCEPT ![1] = At(A, Len(A) - 1)]
             shorter == SubSeq(moved, 1, Len(A) - 1)
         IN  [arr |-> RemoveMinLoop(shorter, 0),
              ret |-> result.value,
              result |-> <<Entry(result.key, result.value)>>]

RECURSIVE _down_heap(_, _, _)
_down_heap(A, index, n) ==
    LET cur == index
        left == (cur * 2) + 1
        right == (cur * 2) + 2
        s1 == IF left < n /\ At(A, cur).key > At(A, left).key
              THEN left ELSE cur
        smallest == IF right < n /\ At(A, s1).key > At(A, right).key
                    THEN right ELSE s1
    IN  IF smallest /= cur
        THEN _down_heap(Swap(A, cur, smallest), smallest, n)
        ELSE A

RECURSIVE BuildLoop(_, _, _)
\* for i in range(n // 2 - 1, -1, -1): self._down_heap(i, n)
BuildLoop(A, i, n) ==
    IF i < 0 THEN A ELSE BuildLoop(_down_heap(A, i, n), i - 1, n)

ip_build(input) == BuildLoop(input, (Len(input) \div 2) - 1, Len(input))

RECURSIVE SortLoop(_, _)
\* for i in range(n - 1, 0, -1): swap root and entry i, then _down_heap(0, i)
SortLoop(A, i) ==
    IF i < 1 THEN A ELSE SortLoop(_down_heap(Swap(A, 0, i), 0, i), i - 1)

sort(A) == SortLoop(BuildLoop(A, (Len(A) \div 2) - 1, Len(A)), Len(A) - 1)

---------------------------------------------------------------------------
\* The PriorityQueue as a state machine

\* the map, untouched while the queues are exercised
MapUnused ==
    /\ capacity = InitCapacity /\ size = 0 /\ load_factor = <<0, 1>>
    /\ resizes_done = 0
    /\ buckets = [i \in 0..(InitCapacity - 1) |-> NoneBucket]
    /\ a = HashP /\ b = HashP
    /\ op = Call("init", <<>>, None) /\ ret = None /\ rz = <<>> /\ keys = <<>>
    /\ shadow = [k \in Keys |-> None]

\* two sequences with the same entries, each as often
SameBag(s, t) ==
    /\ Len(s) = Len(t)
    /\ \A e \in {s[i] : i \in 1..Len(s)} \cup {t[i] : i \in 1..Len(t)} :
          Cardinality({i \in 1..Len(s) : s[i] = e})
            = Cardinality({i \in 1..Len(t) : t[i] = e})

\* the priorities of a sequence of entries
PrioritiesOf(s) == [i \in 1..Len(s) |-> s[i].key]

PQInit ==
    /\ MapUnused
    /\ BloomUnused /\ BfsUnused /\ DijkstraUnused /\ DoraUnused /\ ChainUnused
    /\ arr = <<>> /\ max_priority = 0
    /\ pq_phase = "open" /\ given = <<>> /\ removed = <<>> /\ pret = None
    /\ pq_op = "init"
    /\ input_list = <<>>
    /\ arr2 = <<>> /\ phase2 = "new" /\ input_list2 = <<>>

\* insert(priority, data), while no remove_min has answered yet
PQInsert(priority, data) ==
    /\ pq_phase = "open"
    /\ removed = <<>>
    /\ Len(arr) < MaxHeap
    /\ arr' = pq_insert(arr, priority, data)
    /\ given' = Append(given, Entry(priority, data))
    /\ pq_op' = "insert"
    /\ UNCHANGED <<max_priority, pq_phase, removed, pret, input_list>>
    /\ UNCHANGED <<mapVars, mapObs, pq2Vars, algVars>>

PQInsertFifo(data) ==
    LET q == insert_fifo([arr |-> arr, max_priority |-> max_priority], data)
    IN  /\ pq_phase = "open"
        /\ Len(arr) < MaxHeap
        /\ max_priority < MaxFifo
        /\ arr' = q.arr
        /\ max_priority' = q.max_priority
        /\ given' = Append(given, Entry(max_priority, data))
        /\ pq_op' = "insert_fifo"
        /\ UNCHANGED <<pq_phase, removed, pret, input_list>>
        /\ UNCHANGED <<mapVars, mapObs, pq2Vars, algVars>>

PQRemoveMin ==
    LET r == remove_min(arr)
    IN  /\ pq_phase \in {"open", "built"}
        /\ arr' = r.arr
        /\ pret' = r.ret
        /\ removed' = removed \o r.result
        /\ pq_op' = "remove_min"
        /\ UNCHANGED <<max_priority, pq_phase, given, input_list>>
        /\ UNCHANGED <<mapVars, mapObs, pq2Vars, algVars>>

PQNext ==
    \/ \E priority \in Priorities, data \in Values : PQInsert(priority, data)
    \/ PQRemoveMin

\* the queue used through insert, then remove_min
SpecPQ == PQInit /\ [][PQNext]_vars

FifoNext ==
    \/ \E data \in Values : PQInsertFifo(data)
    \/ PQRemoveMin

\* the queue used through insert_fifo and remove_min only
SpecFifo == PQInit /\ [][FifoNext]_vars

HeapInit ==
    /\ MapUnused
    /\ BloomUnused /\ BfsUnused /\ DijkstraUnused /\ DoraUnused /\ ChainUnused
    /\ arr = <<>> /\ max_priority = 0
    /\ pq_phase = "new" /\ given = <<>> /\ removed = <<>> /\ pret = None
    /\ pq_op = "init"
    /\ input_list \in HeapInputs
    /\ arr2 = <<>> /\ phase2 = "new"
    /\ input_list2 \in {t \in HeapInputs : SameBag(t, input_list)}

IpBuild ==
    /\ pq_phase = "new"
    /\ arr' = ip_build(input_list)
    /\ pq_phase' = "built"
    /\ pq_op' = "ip_build"
    /\ UNCHANGED <<max_priority, given, removed, pret, input_list>>
    /\ UNCHANGED <<mapVars, mapObs, pq2Vars, algVars>>

IpBuild2 ==
    /\ phase2 = "new"
    /\ arr2' = ip_build(input_list2)
    /\ phase2' = "built"
    /\ UNCHANGED input_list2
    /\ UNCHANGED <<mapVars, mapObs, pqVars, pqObs, algVars>>

Sort2 ==
    /\ phase2 = "built"
    /\ arr2' = sort(arr2)
    /\ phase2' = "sorted"
    /\ UNCHANGED input_list2
    /\ UNCHANGED <<mapVars, mapObs, pqVars, pqObs, algVars>>

HeapNext ==
    \/ IpBuild
    \/ PQRemoveMin
    \/ IpBuild2
    \/ Sort2

\* one queue built in place and drained, another built from the same entries
\* and sorted
SpecHeap == HeapInit /\ [][HeapNext]_vars

\* ---- the queue under any interleaving of its calls, keeping no history ----

\* insert(priority, data); it returns None
QueueInsert(priority, data) ==
    /\ Len(arr) < MaxInput
    /\ arr' = pq_insert(arr, priority, data)
    /\ pq_op' = "insert"
    /\ pret' = None
    /\ UNCHANGED <<max_priority, pq_phase, given, removed, input_list>>
    /\ UNCHANGED <<mapVars, mapObs, pq2Vars, algVars>>

QueueRemoveMin ==
    LET r == remove_min(arr)
    IN  /\ arr' = r.arr
        /\ pret' = r.ret
        /\ pq_op' = "remove_min"
        /\ UNCHANGED <<max_priority, pq_phase, given, removed, input_list>>
        /\ UNCHANGED <<mapVars, mapObs, pq2Vars, algVars>>

\* ip_build(input) replaces self._arr whole; here it is called on a queue
\* that holds nothing, which loses none of the arrays it can produce
QueueIpBuild(input) ==
    /\ arr = <<>>
    /\ arr' = ip_build(input)
    /\ pq_op' = "ip_build"
    /\ pret' = None
    /\ UNCHANGED <<max_priority, pq_phase, given, removed, input_list>>
    /\ UNCHANGED <<mapVars, mapObs, pq2Vars, algVars>>

GetMinPriority ==
    /\ pret' = get_min_priority(arr)
    /\ pq_op' = "get_min_priority"
    /\ UNCHANGED <<arr, max_priority, pq_phase, given, removed, input_list>>
    /\ UNCHANGED <<mapVars, mapObs, pq2Vars, algVars>>

GetMinValue ==
    /\ pret' = get_min_value(arr)
    /\ pq_op' = "get_min_value"
    /\ UNCHANGED <<arr, max_priority, pq_phase, given, removed, input_list>>
    /\ UNCHANGED <<mapVars, mapObs, pq2Vars, algVars>>

QueueNext ==
    \/ \E priority \in Priorities, data \in Values : QueueInsert(priority, data)
    \/ QueueRemoveMin
    \/ \E input \in HeapInputs : QueueIpBuild(input)
    \/ GetMinPriority
    \/ GetMinValue

\* the queue used through insert, remove_min, ip_build and the two peeks
SpecQueue == PQInit /\ [][QueueNext]_vars

\* ---- insert and insert_fifo mixed on one queue, keeping no history; the
\* payload plays no part in the order, so insert and insert_fifo are given
\* one payload only ----

MixedInsert(priority, data) ==
    /\ Len(arr) < MaxHeap
    /\ arr' = pq_insert(arr, priority, data)
    /\ pq_op' = "insert"
    /\ pret' = None
    /\ UNCHANGED <<max_priority, pq_phase, given, removed, input_list>>
    /\ UNCHANGED <<mapVars, mapObs, pq2Vars, algVars>>

MixedInsertFifo(data) ==
    /\ Len(arr) < MaxHeap
    /\ max_priority < MaxFifo
    /\ \E q \in {insert_fifo([arr |-> arr, max_priority |-> max_priority], data)} :
          /\ arr' = q.arr
          /\ max_priority' = q.max_priority
    /\ pq_op' = "insert_fifo"
    /\ pret' = None
    /\ UNCHANGED <<pq_phase, given, removed, input_list>>
    /\ UNCHANGED <<mapVars, mapObs, pq2Vars, algVars>>

\* the arrays handed to ip_build, with that payload
MixedInputs ==
    UNION {[1..n -> [key : Priorities, value : {NumValues}]] : n \in 0..MaxInput}

MixedNext ==
    \/ \E priority \in Priorities, data \in {NumValues} : MixedInsert(priority, data)
    \/ \E data \in {NumValues} : MixedInsertFifo(data)
    \/ QueueRemoveMin
    \/ \E input \in MixedInputs : QueueIpBuild(input)

\* the queue used through insert, insert_fifo, remove_min and ip_build in any
\* order
SpecMixed == PQInit /\ [][MixedNext]_vars

---------------------------------------------------------------------------
\* Properties of the PriorityQueue

\* the least priority held in a non-empty array
MinPriorityOf(A) ==
    CHOOSE p \in {A[i].key : i \in 1..Len(A)} :
        \A i \in 1..Len(A) : p <= A[i].key

\* C11: get_min_priority() and get_min_value() leave the array, its size and
\* the FIFO counter as they were; on a non-empty queue, however it was reached
\* by insert, remove_min and ip_build, they return the priority and the value
\* of an entry whose priority is minimal, and on an empty queue None.
C11_PeekIsPureAndMinimal ==
    [][(pq_op' \in {"get_min_priority", "get_min_value"}) =>
        /\ arr' = arr /\ max_priority' = max_priority
        /\ (arr = <<>>) => (pret' = None)
        /\ (arr /= <<>> /\ pq_op' = "get_min_priority") =>
               (pret' = MinPriorityOf(arr))
        /\ (arr /= <<>> /\ pq_op' = "get_min_value") =>
               (\E i \in 1..Len(arr) : /\ arr[i].key = MinPriorityOf(arr)
                                        /\ arr[i].value = pret')]_vars

\* get_min_value answered on a queue of three entries, not all of one
\* priority and not all of one value
C11_Witness ==
    /\ pq_op = "get_min_value"
    /\ Len(arr) = 3
    /\ \E i \in 1..3 : arr[i].key > arr[1].key
    /\ pret = arr[1].value
    /\ pret /= arr[2].value

\* C12: remove_min() on an empty queue returns None, leaves the queue empty
\* and the FIFO counter as it was, so that the next insert_fifo gets the
\* priority it would have got without that call.
C12_RemoveMinOnEmpty ==
    /\ [][(arr = <<>> /\ pq_op' = "remove_min") =>
            (pret' = None /\ arr' = <<>> /\ max_priority' = max_priority)]_vars
    /\ [][(arr = <<>> /\ pq_op = "remove_min" /\ pret = None
            /\ pq_op' = "insert_fifo") =>
            (/\ Len(arr') = 1
             /\ arr'[1].key = max_priority
             /\ max_priority' = max_priority + 1)]_vars

\* remove_min has answered None on a queue emptied after two insert_fifo
C12_Witness ==
    /\ pq_op = "remove_min"
    /\ pret = None
    /\ arr = <<>>
    /\ max_priority = 2
    /\ Len(removed) = 2

\* C7: after any sequence of insert calls, the remove_min calls return entries
\* in non-decreasing priority order, and what has been returned together with
\* what is still queued is exactly the inserted multiset (so the returned
\* entries are the inserted multiset once the queue is empty).
C7_RemoveMinNonDecreasing ==
    /\ \A i \in 1..(Len(removed) - 1) : removed[i].key <= removed[i + 1].key
    /\ SameBag(removed \o arr, given)

\* a queue of at least three entries of different priorities, drained to empty
C7_Witness ==
    /\ arr = <<>>
    /\ Len(removed) >= 3
    /\ Len(removed) = Len(given)
    /\ removed[1].key < removed[Len(removed)].key
    /\ PrioritiesOf(given) /= PrioritiesOf(removed)

\* C8: on a queue used only through insert_fifo and remove_min, in any
\* interleaving, the i-th answer of remove_min is the i-th value inserted.
C8_FifoOrder ==
    /\ Len(removed) <= Len(given)
    /\ \A i \in 1..Len(removed) : removed[i] = given[i]

\* remove_min has answered three times, values inserted later are still
\* queued, and neighbouring inserted values differ
C8_Witness ==
    /\ Len(removed) >= 3
    /\ Len(given) > Len(removed)
    /\ arr /= <<>>
    /\ \E i \in 1..Len(removed) : given[i].value /= given[i + 1].value

\* C9: the array sort() returns is ascending by priority.
C9_SortAscending ==
    phase2 = "sorted" =>
        \A i \in 1..(Len(arr2) - 1) : arr2[i].key <= arr2[i + 1].key

\* C10: ip_build followed by remove_min until empty yields the priorities in
\* the order they have in the array sort() returns for the same multiset.
C10_DrainOrderIsSortOrder ==
    (pq_phase = "built" /\ arr = <<>> /\ Len(removed) = Len(input_list)
        /\ phase2 = "sorted")
        => PrioritiesOf(removed) = PrioritiesOf(arr2)

---------------------------------------------------------------------------
\* Properties of the Map

\* C1: in every reachable state, after any sequence of insert, insert_kv,
\* __setitem__ and remove calls (resizes included), find(k) returns the value
\* of the last insert of k, and None when k was removed last or never inserted.
C1_FindReturnsLastInsert == \A k \in Keys : find(Self, k) = shadow[k]

\* a remove has just run on a map that has been resized and still holds a key
C1_Witness ==
    /\ op.name = "remove"
    /\ resizes_done >= 1
    /\ \E k \in Keys : shadow[k] /= None /\ find(Self, k) = shadow[k]

\* C2: remove(k) of a key that is not present leaves the stored entries, the
\* size, the load factor and the capacity unchanged.
C2_RemoveAbsentIsNoOp ==
    [][(op'.name = "remove" /\ find(Self, op'.key) = None)
        => /\ AllEntries(Self') = AllEntries(Self)
           /\ size' = size
           /\ SameLoad(load_factor', load_factor)
           /\ capacity' = capacity]_vars

\* C3: insert(k, v) returns the previous value of k and leaves size alone when
\* k is present, returns None and adds exactly one to size when k is new, also
\* when the insert resizes; afterwards k maps to v.
C3_InsertReturnsPrevious ==
    [][op'.name \in {"insert", "insert_kv"}
        => /\ ret' = find(Self, op'.key)
           /\ find(Self, op'.key) /= None => size' = size
           /\ find(Self, op'.key) = None => size' = size + 1
           /\ find(Self', op'.key) = op'.value]_vars

\* C4: every resize is a pure rehash: find gives the same answer for every key
\* before and after it (no key lost, none added, no value changed), and the
\* size counter right after the rehash is the number of entries that were
\* stored before it.
C4_ResizeIsPureRehash ==
    \A i \in 1..Len(rz) :
        /\ rz[i].after = rz[i].before
        /\ rz[i].size = rz[i].live

\* an insert has just resized a map that held at least two entries
C4_Witness ==
    /\ op.name \in {"insert", "insert_kv"}
    /\ \E i \in 1..Len(rz) : rz[i].live >= 2 /\ rz[i].size = rz[i].live

\* C5: the capacity changes in a step exactly when the step is an insert or
\* insert_kv called with load factor >= 0.9; that step performs exactly one
\* resize, to the next prime of the schedule; no other step changes the
\* capacity or the resize count.
C5_ResizeExactlyOnce ==
    [][LET resizing == /\ op'.name \in {"insert", "insert_kv"}
                       /\ LoadHigh(load_factor)
       IN  /\ (capacity' /= capacity) <=> resizing
           /\ resizing => /\ resizes_done' = resizes_done + 1
                          /\ capacity' = Primes[resizes_done + 1]
           /\ ~resizing => resizes_done' = resizes_done]_vars

\* C6: from every reachable state, m[k] = v leaves the map in the same state
\* (entries, size, capacity, load factor, resize count) as insert_kv(k, v).
C6_SetItemSameAsInsertKV ==
    \A k \in Keys, v \in Values :
        LET s == __setitem__(Self, k, v)
            i == insert_kv(Self, k, v)
        IN  i.ok => /\ s.capacity = i.capacity
                    /\ s.resizes_done = i.resizes_done
                    /\ s.size = i.size
                    /\ SameLoad(s.load_factor, i.load_factor)
                    /\ s.buckets = i.buckets

---------------------------------------------------------------------------
\* BloomFilter (structures/bloom_filter.py)

\* the largest max_keys a filter is constructed with
MaxKeys == 1
\* the inserts followed on one filter
MaxInserts == 3

\* self._capacity = max_keys * 5
BloomFactor == 5
\* prime = 53 of BloomFilter._hash
BloomPrime == 53

\* BitVector, as the filter uses it: a sequence of bits
allocate(n) == [i \in 1..n |-> 0]
get_at(bits, i) == bits[i + 1]
set_at(bits, i) == [bits EXCEPT ![i + 1] = 1]

RECURSIVE BloomPreHash(_, _)
\* the loop of BloomFilter._hash: pre_hash = (prime * pre_hash + byte) % (2**32 - 1)
BloomPreHash(pre_hash, bytes) ==
    IF bytes = <<>> THEN pre_hash
    ELSE BloomPreHash((BloomPrime * pre_hash + Head(bytes)) % HashUniverse,
                      Tail(bytes))

bloom_hash(f, key) ==
    ((f.a * BloomPreHash(0, key) + f.b) % HashP) % f.capacity

\* BloomFilter(max_keys), with the coefficients the constructor drew
BloomFilter(max_keys, ca, cb) ==
    [capacity |-> max_keys * BloomFactor,
     data |-> allocate(max_keys * BloomFactor),
     size |-> 0,
     a |-> ca, b |-> cb]

\* insert, setting the bit after the hashed one
bloom_insert_NextBit(f, key) ==
    [f EXCEPT !.data = set_at(@, (bloom_hash(f, key) + 1) % f.capacity),
              !.size = @ + 1]

\* insert, setting the hashed bit and the one after it
bloom_insert_TwoBits(f, key) ==
    [f EXCEPT !.data = set_at(set_at(@, bloom_hash(f, key)),
                              (bloom_hash(f, key) + 1) % f.capacity),
              !.size = @ + 1]

bloom_insert(f, key) ==
    [f EXCEPT !.data = set_at(@, bloom_hash(f, key)),
              !.size = @ + 1]

bloom_contains(f, key) == get_at(f.data, bloom_hash(f, key)) = 1

\* no key asked for yet
NoKey == <<>>

BloomInit ==
    /\ MapUnused /\ PQUnused
    /\ BfsUnused /\ DijkstraUnused /\ DoraUnused /\ ChainUnused
    /\ \E max_keys \in 1..MaxKeys, ca \in Coefs, cb \in Coefs :
          bloom = [pc |-> "live", filter |-> BloomFilter(max_keys, ca, cb),
                   added |-> {}, asked |-> NoKey, answer |-> FALSE]

BloomInsert(key) ==
    /\ bloom.pc = "live"
    /\ bloom.filter.size < MaxInserts
    /\ bloom' = [bloom EXCEPT !.filter = bloom_insert(@, key),
                              !.added = @ \cup {key},
                              !.asked = NoKey,
                              !.answer = FALSE]
    /\ UNCHANGED <<mapVars, mapObs, pqVars, pqObs, pq2Vars, bfs, dj, hf, cr>>

BloomContains(key) ==
    /\ bloom.pc = "live"
    /\ bloom' = [bloom EXCEPT !.asked = key,
                              !.answer = bloom_contains(bloom.filter, key)]
    /\ UNCHANGED <<mapVars, mapObs, pqVars, pqObs, pq2Vars, bfs, dj, hf, cr>>

BloomNext ==
    \/ \E key \in Keys : BloomInsert(key)
    \/ \E key \in Keys : BloomContains(key)

SpecBloom == BloomInit /\ [][BloomNext]_vars

\* C13: after any sequence of inserts, contains(k) is true of every key k
\* that was inserted: the filter has no false negatives.
C13_NoFalseNegatives ==
    /\ \A k \in bloom.added : bloom_contains(bloom.filter, k)
    /\ (bloom.asked \in bloom.added) => bloom.answer

\* contains has answered for an inserted key, after three inserts of at least
\* two keys
C13_Witness ==
    /\ bloom.asked \in bloom.added
    /\ bloom.answer
    /\ Cardinality(bloom.added) >= 2
    /\ bloom.filter.size = 3

---------------------------------------------------------------------------
\* Graph, as the traversals use it: nodes with integer ids, and the
\* neighbours of a node enumerated in the order the graph stores them,
\* paired with the edge's weight when the graph is weighted

\* the number of nodes of a graph
NumNodes == 3

Nodes == 0..(NumNodes - 1)
EdgePairs == {e \in SUBSET Nodes : Cardinality(e) = 2}
Weights == {0, 2}

RECURSIVE Ascending(_)
Ascending(S) ==
    IF S = {} THEN <<>>
    ELSE LET least == CHOOSE x \in S : \A y \in S : x <= y
         IN  <<least>> \o Ascending(S \ {least})

Reverse(seq) == [i \in 1..Len(seq) |-> seq[Len(seq) + 1 - i]]

\* graphs without weights, their adjacency lists ascending or descending
UnweightedGraphs ==
    {[edges |-> E, desc |-> d, weighted |-> FALSE, weight |-> [e \in E |-> 1]] :
        E \in SUBSET EdgePairs, d \in BOOLEAN}

\* graph.get_neighbours(node_id): ids, or (id, weight) pairs
get_neighbours(graph, node_id) ==
    LET adjacent == {x \in Nodes : {node_id, x} \in graph.edges}
        ids == IF graph.desc THEN Reverse(Ascending(adjacent))
               ELSE Ascending(adjacent)
    IN  IF graph.weighted
        THEN [i \in 1..Len(ids) |-> <<ids[i], graph.weight[{node_id, ids[i]}]>>]
        ELSE ids

\* object_to_byte_array of a node id
NodeKey(node_id) == <<node_id>>

\* Python's True, as a map value
True == 1

\* PriorityQueue()
PriorityQueue == [arr |-> <<>>, max_priority |-> 0]

\* map.insert_kv(k, v) as a statement: the map it leaves, the return value
\* and the record of its resizes dropped
Put(m, k, v) == [insert_kv(m, k, v) EXCEPT !.ret = None, !.rlog = <<>>]

---------------------------------------------------------------------------
\* bfs_traversal (algorithms/pathfinding.py)

\* the lines before the while loop, forgetting to mark the origin as visited
BfsCall_OriginUnmarked(graph, origin, goal, cv, cp) ==
    [pc |-> "loop", graph |-> graph, origin |-> origin, goal |-> goal,
     queue |-> insert_fifo(PriorityQueue, origin),
     visited_map |-> NewMap(cv[1], cv[2]),
     parent_map |-> Put(NewMap(cp[1], cp[2]), NodeKey(origin), None),
     visited_order |-> <<>>,
     path |-> <<>>]

\* the lines before the while loop; cv and cp are the coefficients the two
\* maps drew
BfsCall(graph, origin, goal, cv, cp) ==
    [pc |-> "loop", graph |-> graph, origin |-> origin, goal |-> goal,
     queue |-> insert_fifo(PriorityQueue, origin),
     visited_map |-> Put(NewMap(cv[1], cv[2]), NodeKey(origin), True),
     parent_map |-> Put(NewMap(cp[1], cp[2]), NodeKey(origin), None),
     visited_order |-> <<>>,
     path |-> <<>>]

RECURSIVE TracePath(_, _)
\* while current_node is not None: temp_path.append(current_node); follow
\* the parent
TracePath(parent_map, current_node) ==
    IF current_node = None THEN <<>>
    ELSE <<current_node>>
            \o TracePath(parent_map, find(parent_map, NodeKey(current_node)))

RECURSIVE VisitNeighbours_ParentIsOrigin(_, _, _)
\* the for loop over the neighbours, recording the origin as every parent
VisitNeighbours_ParentIsOrigin(st, current_node, neighbours) ==
    IF neighbours = <<>> THEN st
    ELSE LET neighbour_id == Head(neighbours)
             seen == find(st.visited_map, NodeKey(neighbour_id)) = True
             st1 == IF seen THEN st
                    ELSE [st EXCEPT
                            !.queue = insert_fifo(@, neighbour_id),
                            !.visited_map = Put(@, NodeKey(neighbour_id), True),
                            !.parent_map = Put(@, NodeKey(neighbour_id),
                                                     st.origin)]
         IN  VisitNeighbours_ParentIsOrigin(st1, current_node, Tail(neighbours))

RECURSIVE VisitNeighbours(_, _, _)
\* the for loop over the neighbours of current_node
VisitNeighbours(st, current_node, neighbours) ==
    IF neighbours = <<>> THEN st
    ELSE LET neighbour_id == Head(neighbours)
             seen == find(st.visited_map, NodeKey(neighbour_id)) = True
             st1 == IF seen THEN st
                    ELSE [st EXCEPT
                            !.queue = insert_fifo(@, neighbour_id),
                            !.visited_map = Put(@, NodeKey(neighbour_id), True),
                            !.parent_map = Put(@, NodeKey(neighbour_id),
                                                     current_node)]
         IN  VisitNeighbours(st1, current_node, Tail(neighbours))

\* one pass of the while loop, without the test for the goal
BfsIteration_GoalNotTested(st) ==
    LET r == remove_min(st.queue.arr)
        current_node == r.ret
        st1 == [st EXCEPT !.queue.arr = r.arr,
                          !.visited_order = Append(@, current_node)]
    IN  VisitNeighbours(st1, current_node,
                        get_neighbours(st.graph, current_node))

\* one pass of the while loop on the locals st
BfsIteration(st) ==
    LET r == remove_min(st.queue.arr)
        current_node == r.ret
        st1 == [st EXCEPT !.queue.arr = r.arr,
                          !.visited_order = Append(@, current_node)]
    IN  IF current_node = st.goal
        THEN [st1 EXCEPT !.path = Reverse(TracePath(st.parent_map, current_node)),
                         !.pc = "done"]
        ELSE VisitNeighbours(st1, current_node,
                             get_neighbours(st.graph, current_node))

BfsInit ==
    /\ MapUnused /\ PQUnused
    /\ BloomUnused /\ DijkstraUnused /\ DoraUnused /\ ChainUnused
    /\ \E graph \in UnweightedGraphs, origin \in Nodes, goal \in Nodes,
          cv \in Coefs \X Coefs, cp \in Coefs \X Coefs :
          bfs = BfsCall(graph, origin, goal, cv, cp)

\* while not queue.is_empty(): one pass
BfsStep ==
    /\ bfs.pc = "loop"
    /\ bfs.queue.arr /= <<>>
    /\ bfs' = BfsIteration(bfs)
    /\ UNCHANGED <<mapVars, mapObs, pqVars, pqObs, pq2Vars, bloom, dj, hf, cr>>

\* the queue has run empty: return (path, visited_order)
BfsReturn ==
    /\ bfs.pc = "loop"
    /\ bfs.queue.arr = <<>>
    /\ bfs' = [bfs EXCEPT !.pc = "done"]
    /\ UNCHANGED <<mapVars, mapObs, pqVars, pqObs, pq2Vars, bloom, dj, hf, cr>>

BfsNext ==
    \/ BfsStep
    \/ BfsReturn

\* one call of bfs_traversal, run to its return
SpecBfs == BfsInit /\ [][BfsNext]_vars

RECURSIVE Within(_, _, _)
\* the nodes that k edges or fewer join to origin
Within(graph, origin, k) ==
    IF k = 0 THEN {origin}
    ELSE LET W == Within(graph, origin, k - 1)
         IN  W \cup {x \in Nodes : \E y \in W : {x, y} \in graph.edges}

Reachable(graph, origin) == Within(graph, origin, NumNodes)

\* the least number of edges on a path from origin to a reachable node
Hops(graph, origin, node) ==
    CHOOSE k \in 0..NumNodes :
        /\ node \in Within(graph, origin, k)
        /\ \A j \in 0..(k - 1) : node \notin Within(graph, origin, j)

\* C14: when the goal is reachable from the origin, the returned path starts
\* at the origin, ends at the goal, joins consecutive nodes by edges of the
\* graph and has the least possible number of edges; it is [origin] when the
\* goal is the origin.
C14_BfsPathIsShortest ==
    (bfs.pc = "done" /\ bfs.goal \in Reachable(bfs.graph, bfs.origin)) =>
        /\ bfs.path /= <<>>
        /\ bfs.path[1] = bfs.origin
        /\ bfs.path[Len(bfs.path)] = bfs.goal
        /\ \A i \in 1..(Len(bfs.path) - 1) :
              {bfs.path[i], bfs.path[i + 1]} \in bfs.graph.edges
        /\ Len(bfs.path) - 1 = Hops(bfs.graph, bfs.origin, bfs.goal)
        /\ (bfs.goal = bfs.origin) => (bfs.path = <<bfs.origin>>)

\* a path of two edges returned where goal and origin are not adjacent
C14_Witness ==
    /\ bfs.pc = "done"
    /\ Len(bfs.path) = 3
    /\ Cardinality(bfs.graph.edges) >= 2

\* the goal of the running call cannot be reached from its origin
BfsUnreachable == bfs.goal \notin Reachable(bfs.graph, bfs.origin)

\* the nodes of the visited order
BfsVisited == {bfs.visited_order[i] : i \in 1..Len(bfs.visited_order)}

\* C15: when the goal cannot be reached from the origin, the call returns
\* (every pass of the loop visits one more node, none of them twice and none
\* outside the nodes reachable from the origin, until the queue is empty),
\* the path is empty, and the visited order holds the nodes reachable from
\* the origin, each of them once and no other node.
C15_BfsUnreachableGoal ==
    /\ [](BfsUnreachable =>
            /\ Cardinality(BfsVisited) = Len(bfs.visited_order)
            /\ BfsVisited \subseteq Reachable(bfs.graph, bfs.origin)
            /\ (bfs.pc = "done") =>
                  /\ bfs.path = <<>>
                  /\ BfsVisited = Reachable(bfs.graph, bfs.origin))
    /\ [][BfsUnreachable =>
            \/ bfs'.pc = "done" /\ bfs.queue.arr = <<>>
            \/ /\ bfs'.pc = "loop"
               /\ Len(bfs'.visited_order) = Len(bfs.visited_order) + 1]_vars

\* the call has returned without a path after visiting two nodes
C15_Witness ==
    /\ bfs.pc = "done"
    /\ bfs.path = <<>>
    /\ bfs.goal \notin Reachable(bfs.graph, bfs.origin)
    /\ Len(bfs.visited_order) = 2

---------------------------------------------------------------------------
\* dijkstra_traversal (algorithms/pathfinding.py)

\* float("inf"): above every path cost, and inf + w = inf
Inf == 1000000
Plus(distance, w) == IF distance = Inf THEN Inf ELSE distance + w

\* graphs with a weight on every edge
WeightedGraphs ==
    UNION {{[edges |-> E, desc |-> d, weighted |-> TRUE, weight |-> w] :
                w \in [E -> Weights], d \in BOOLEAN} : E \in SUBSET EdgePairs}

\* graph._nodes
NodesOf(graph) == Ascending(Nodes)

RECURSIVE SeedNodes(_, _)
\* for node in graph._nodes: distance 0 for the origin, inf for the others;
\* every node enters the queue
SeedNodes(st, nodes) ==
    IF nodes = <<>> THEN st
    ELSE LET node_id == Head(nodes)
             distance == IF node_id = st.origin THEN 0 ELSE Inf
         IN  SeedNodes([st EXCEPT
                          !.distance_map = Put(@, NodeKey(node_id), distance),
                          !.queue = pq_insert(@, distance, node_id)],
                       Tail(nodes))

\* the lines before the while loop; cd are the coefficients distance_map drew
DijkstraCall(graph, origin, cd) ==
    SeedNodes([pc |-> "loop", graph |-> graph, origin |-> origin,
               queue |-> <<>>,
               distance_map |-> NewMap(cd[1], cd[2]),
               valid_locations |-> <<>>],
              NodesOf(graph))

RECURSIVE Relax_UnitCost(_, _, _)
\* the for loop over the neighbours, charging one for every edge
Relax_UnitCost(st, current_distance, neighbours) ==
    IF neighbours = <<>> THEN st
    ELSE LET neighbour_id == IF st.graph.weighted THEN Head(neighbours)[1]
                             ELSE Head(neighbours)
             new_distance == Plus(current_distance, 1)
             better == new_distance < find(st.distance_map, NodeKey(neighbour_id))
             st1 == IF better
                    THEN [st EXCEPT
                            !.distance_map = Put(@, NodeKey(neighbour_id), new_distance),
                            !.queue = pq_insert(@, new_distance, neighbour_id)]
                    ELSE st
         IN  Relax_UnitCost(st1, current_distance, Tail(neighbours))

RECURSIVE Relax_NotStrict(_, _, _)
\* the for loop over the neighbours, taking an equal distance for a better one
Relax_NotStrict(st, current_distance, neighbours) ==
    IF neighbours = <<>> THEN st
    ELSE LET neighbour_id == IF st.graph.weighted THEN Head(neighbours)[1]
                             ELSE Head(neighbours)
             edge_weight == IF st.graph.weighted THEN Head(neighbours)[2] ELSE 1
             new_distance == Plus(current_distance, edge_weight)
             better == new_distance <= find(st.distance_map, NodeKey(neighbour_id))
             st1 == IF better
                    THEN [st EXCEPT
                            !.distance_map = Put(@, NodeKey(neighbour_id), new_distance),
                            !.queue = pq_insert(@, new_distance, neighbour_id)]
                    ELSE st
         IN  Relax_NotStrict(st1, current_distance, Tail(neighbours))

RECURSIVE Relax_InsertAlways(_, _, _)
\* the for loop over the neighbours, inserting the neighbour into the queue
\* whether or not its distance improved
Relax_InsertAlways(st, current_distance, neighbours) ==
    IF neighbours = <<>> THEN st
    ELSE LET neighbour_id == IF st.graph.weighted THEN Head(neighbours)[1]
                             ELSE Head(neighbours)
             edge_weight == IF st.graph.weighted THEN Head(neighbours)[2] ELSE 1
             new_distance == Plus(current_distance, edge_weight)
             better == new_distance < find(st.distance_map, NodeKey(neighbour_id))
             st1 == [st EXCEPT
                       !.distance_map = IF better
                                        THEN Put(@, NodeKey(neighbour_id), new_distance)
                                        ELSE @,
                       !.queue = pq_insert(@, new_distance, neighbour_id)]
         IN  Relax_InsertAlways(st1, current_distance, Tail(neighbours))

RECURSIVE Relax(_, _, _)
\* the for loop over the neighbours, of either branch: the edge's weight when
\* the graph is weighted, 1 when it is not
Relax(st, current_distance, neighbours) ==
    IF neighbours = <<>> THEN st
    ELSE LET neighbour_id == IF st.graph.weighted THEN Head(neighbours)[1]
                             ELSE Head(neighbours)
             edge_weight == IF st.graph.weighted THEN Head(neighbours)[2] ELSE 1
             new_distance == Plus(current_distance, edge_weight)
             better == new_distance < find(st.distance_map, NodeKey(neighbour_id))
             st1 == IF better
                    THEN [st EXCEPT
                            !.distance_map = Put(@, NodeKey(neighbour_id), new_distance),
                            !.queue = pq_insert(@, new_distance, neighbour_id)]
                    ELSE st
         IN  Relax(st1, current_distance, Tail(neighbours))

\* one pass of the while loop on the locals st
DijkstraIteration(st) ==
    LET r == remove_min(st.queue)
        current_node_id == r.ret
        current_distance == find(st.distance_map, NodeKey(current_node_id))
    IN  Relax([st EXCEPT !.queue = r.arr], current_distance,
              get_neighbours(st.graph, current_node_id))

RECURSIVE CollectValid(_, _)
\* the closing loop: an Entry(node_id, distance) per node of finite distance
CollectValid(distance_map, nodes) ==
    IF nodes = <<>> THEN <<>>
    ELSE LET node_id == Head(nodes)
             distance == find(distance_map, NodeKey(node_id))
         IN  (IF distance < Inf THEN <<Entry(node_id, distance)>> ELSE <<>>)
                \o CollectValid(distance_map, Tail(nodes))

\* the lines after the while loop
DijkstraFinish(st) ==
    [st EXCEPT !.valid_locations = CollectValid(st.distance_map, NodesOf(st.graph)),
               !.pc = "done"]

RECURSIVE DijkstraRun(_)
\* the call from the while loop to its return
DijkstraRun(st) ==
    IF st.queue = <<>> THEN DijkstraFinish(st)
    ELSE DijkstraRun(DijkstraIteration(st))

dijkstra_traversal(graph, origin, cd) ==
    DijkstraRun(DijkstraCall(graph, origin, cd)).valid_locations

DijkstraInit ==
    /\ MapUnused /\ PQUnused
    /\ BloomUnused /\ BfsUnused /\ DoraUnused /\ ChainUnused
    /\ \E graph \in WeightedGraphs \cup UnweightedGraphs, origin \in Nodes,
          cd \in Coefs \X Coefs :
          dj = DijkstraCall(graph, origin, cd) @@ [extracted |-> <<>>]

\* while not queue.is_empty(): one pass; extracted keeps the nodes remove_min
\* has returned so far, in order
DijkstraStep ==
    /\ dj.pc = "loop"
    /\ dj.queue /= <<>>
    /\ dj' = [DijkstraIteration(dj) EXCEPT
                 !.extracted = Append(@, remove_min(dj.queue).ret)]
    /\ UNCHANGED <<mapVars, mapObs, pqVars, pqObs, pq2Vars, bloom, bfs, hf, cr>>

\* the queue has run empty: build and return valid_locations
DijkstraReturn ==
    /\ dj.pc = "loop"
    /\ dj.queue = <<>>
    /\ dj' = DijkstraFinish(dj)
    /\ UNCHANGED <<mapVars, mapObs, pqVars, pqObs, pq2Vars, bloom, bfs, hf, cr>>

DijkstraNext ==
    \/ DijkstraStep
    \/ DijkstraReturn

\* one call of dijkstra_traversal, run to its return
SpecDijkstra == DijkstraInit /\ [][DijkstraNext]_vars

\* what an edge costs: its weight, or 1 in a graph without weights
EdgeCost(graph, e) == IF graph.weighted THEN graph.weight[e] ELSE 1

\* the least of a non-empty set of numbers
Least(S) == CHOOSE x \in S : \A y \in S : x <= y

RECURSIVE CostWithin(_, _, _)
\* the least cost of a path of k edges or fewer from origin to every node,
\* Inf where there is none
CostWithin(graph, origin, k) ==
    IF k = 0 THEN [n \in Nodes |-> IF n = origin THEN 0 ELSE Inf]
    ELSE LET D == CostWithin(graph, origin, k - 1)
         IN  [n \in Nodes |->
                Least({D[n]} \cup {Plus(D[m], EdgeCost(graph, {m, n})) :
                                     m \in {x \in Nodes : {x, n} \in graph.edges}})]

ShortestCost(graph, origin) == CostWithin(graph, origin, NumNodes)

\* C16: on non-negative weights (unit cost without weights), the result has
\* exactly one entry per node reachable from the origin, none for any other
\* node, and each entry's value is the least cost of a path from the origin
\* to its node, 0 for the origin itself.
C16_DijkstraDistances ==
    (dj.pc = "done") =>
        LET out == dj.valid_locations
            reach == Reachable(dj.graph, dj.origin)
        IN  /\ {out[i].key : i \in 1..Len(out)} = reach
            /\ Len(out) = Cardinality(reach)
            /\ \A i \in 1..Len(out) :
                  out[i].value = ShortestCost(dj.graph, dj.origin)[out[i].key]
            /\ \A i \in 1..Len(out) :
                  (out[i].key = dj.origin) => (out[i].value = 0)

\* the call has returned, on a weighted graph, a cost below the weight of the
\* edge that joins the node to the origin: the way round was cheaper
C16_Witness ==
    /\ dj.pc = "done"
    /\ dj.graph.weighted
    /\ \E i \in 1..Len(dj.valid_locations) :
          LET e == dj.valid_locations[i]
          IN  /\ {dj.origin, e.key} \in dj.graph.edges
              /\ e.value < dj.graph.weight[{dj.origin, e.key}]

---------------------------------------------------------------------------
\* huffman (algorithms/problems.py)

\* the largest frequency of a symbol in a frequency table given to huffman
MaxFreq == 3

\* the symbols, as the byte strings they hash as, in a fixed order
SymbolOrder == <<<<1>>, <<2>>, <<1, 0>>, <<3>>>>
\* the symbols of a frequency table
TableSymbols == {SymbolOrder[i] : i \in 1..Len(SymbolOrder)}

\* Python's None in a field that holds a symbol
NoSymbol == <<>>
\* Python's None in a field that holds a node
NoNode == [nil |-> TRUE]

\* HuffmanNode(freq, data), its children not set
HuffmanNode(freq, symbol) ==
    [freq |-> freq, data |-> symbol, left |-> NoNode, right |-> NoNode]

RECURSIVE SeedLeaves(_, _, _)
\* for i in range(keys.get_size()): a leaf per key enters the queue
SeedLeaves(queue, keys_, freq_table) ==
    IF keys_ = <<>> THEN queue
    ELSE LET symbol == Head(keys_)
             freq == find(freq_table, symbol)
             node == HuffmanNode(freq, symbol)
         IN  SeedLeaves(IF freq /= None THEN pq_insert(queue, freq, node)
                        ELSE queue,
                        Tail(keys_), freq_table)

\* the lines of huffman before the while loop
HuffmanCall(freq_table) ==
    [queue |-> SeedLeaves(<<>>, get_keys(freq_table), freq_table),
     root |-> NoNode, failed |-> FALSE, returned |-> FALSE]

\* one pass of the while loop, the new node carrying the first frequency only
HuffmanPass_FirstFrequency(h) ==
    LET freq_1 == get_min_priority(h.queue)
        r1 == remove_min(h.queue)
        freq_2 == get_min_priority(r1.arr)
        r2 == remove_min(r1.arr)
        combined_freq == freq_1
        new_node == [freq |-> combined_freq, data |-> NoSymbol,
                     left |-> r1.ret, right |-> r2.ret]
    IN  [h EXCEPT !.queue = pq_insert(r2.arr, combined_freq, new_node)]

\* one pass of the while loop: the two least nodes under a new internal node
HuffmanPass(h) ==
    LET freq_1 == get_min_priority(h.queue)
        r1 == remove_min(h.queue)
        freq_2 == get_min_priority(r1.arr)
        r2 == remove_min(r1.arr)
        combined_freq == freq_1 + freq_2
        new_node == [freq |-> combined_freq, data |-> NoSymbol,
                     left |-> r1.ret, right |-> r2.ret]
    IN  [h EXCEPT !.queue = pq_insert(r2.arr, combined_freq, new_node)]

\* root = queue.remove_min(), taking a second node out after the root
HuffmanRoot_RemovesTwice(h) ==
    LET r == remove_min(remove_min(h.queue).arr)
    IN  IF r.result = <<>>
        THEN [h EXCEPT !.queue = r.arr, !.failed = TRUE, !.returned = TRUE]
        ELSE [h EXCEPT !.queue = r.arr, !.root = r.ret, !.returned = TRUE]

\* root = queue.remove_min(); return root. On an empty queue the root is
\* None, which the caller cannot walk: failed
HuffmanRoot(h) ==
    LET r == remove_min(h.queue)
    IN  IF r.result = <<>>
        THEN [h EXCEPT !.queue = r.arr, !.failed = TRUE, !.returned = TRUE]
        ELSE [h EXCEPT !.queue = r.arr, !.root = r.ret, !.returned = TRUE]

RECURSIVE HuffmanRun(_)
\* the call from the while loop to its return
HuffmanRun(h) ==
    IF Len(h.queue) > 1 THEN HuffmanRun(HuffmanPass(h)) ELSE HuffmanRoot(h)

huffman(freq_table) == HuffmanRun(HuffmanCall(freq_table))

\* ---- code strings ----
\* A code string over "0" and "1" is held as the number whose binary digits
\* are a 1 followed by the string's characters: "" is 1, "0" is 2, "1" is 3,
\* "01" is 5. Different strings are different numbers, and none is None.
EmptyCode == 1
\* current_code + "0", current_code + "1"
AddBit(code, bit) == 2 * code + bit

RECURSIVE BitsOf(_)
\* for bit in symbol_code: int(bit), first character first
BitsOf(code) ==
    IF code = EmptyCode THEN <<>> ELSE Append(BitsOf(code \div 2), code % 2)

\* len(code)
CodeLen(code) == Len(BitsOf(code))

RECURSIVE generate_codes_LeftTwice(_, _)
\* generate_codes, descending to the right with "0" as well
generate_codes_LeftTwice(node, current_code) ==
    IF node.data /= NoSymbol THEN <<Entry(node.data, current_code)>>
    ELSE (IF node.left /= NoNode
          THEN generate_codes_LeftTwice(node.left, AddBit(current_code, 0))
          ELSE <<>>)
         \o (IF node.right /= NoNode
             THEN generate_codes_LeftTwice(node.right, AddBit(current_code, 0))
             ELSE <<>>)

RECURSIVE generate_codes(_, _)
\* the nested helper of dora: the entries appended to codebook, in order (the
\* same entries go to code_map in the same order)
generate_codes(node, current_code) ==
    IF node.data /= NoSymbol THEN <<Entry(node.data, current_code)>>
    ELSE (IF node.left /= NoNode
          THEN generate_codes(node.left, AddBit(current_code, 0))
          ELSE <<>>)
         \o (IF node.right /= NoNode
             THEN generate_codes(node.right, AddBit(current_code, 1))
             ELSE <<>>)

\* ---- huffman on a frequency table of its own ----

\* the tables: a frequency for each of some symbols
FreqTables ==
    UNION {[S -> 1..MaxFreq] : S \in (SUBSET TableSymbols) \ {{}}}

RECURSIVE FillTable(_, _, _)
\* the table as a Map, its symbols inserted in the fixed order
FillTable(m, table, order) ==
    IF order = <<>> THEN m
    ELSE FillTable(IF Head(order) \in DOMAIN table
                   THEN Put(m, Head(order), table[Head(order)])
                   ELSE m,
                   table, Tail(order))

HuffmanInit ==
    /\ MapUnused /\ PQUnused
    /\ BloomUnused /\ BfsUnused /\ DijkstraUnused /\ ChainUnused
    /\ \E table \in FreqTables, cf \in Coefs \X Coefs :
          hf = [pc |-> "huffman", table |-> table,
                h |-> HuffmanCall(FillTable(NewMap(cf[1], cf[2]), table,
                                            SymbolOrder))]

\* while queue.get_size() > 1: one pass
HuffmanMerge ==
    /\ hf.pc = "huffman"
    /\ ~hf.h.returned
    /\ Len(hf.h.queue) > 1
    /\ hf' = [hf EXCEPT !.h = HuffmanPass(@)]
    /\ UNCHANGED <<mapVars, mapObs, pqVars, pqObs, pq2Vars, bloom, bfs, dj, cr>>

\* one node is left: it is the root
HuffmanReturn ==
    /\ hf.pc = "huffman"
    /\ ~hf.h.returned
    /\ Len(hf.h.queue) <= 1
    /\ hf' = [hf EXCEPT !.h = HuffmanRoot(@)]
    /\ UNCHANGED <<mapVars, mapObs, pqVars, pqObs, pq2Vars, bloom, bfs, dj, cr>>

HuffmanNext ==
    \/ HuffmanMerge
    \/ HuffmanReturn

\* one call of huffman, run to its return
SpecHuffman == HuffmanInit /\ [][HuffmanNext]_vars

\* w without its entries i and j, their sum added
Merged(w, i, j) ==
    LET rest == {k \in 1..Len(w) : k /= i /\ k /= j}
        kept == Ascending(rest)
    IN  [k \in 1..Len(kept) |-> w[kept[k]]] \o <<w[i] + w[j]>>

RECURSIVE MinCost(_)
\* the least sum of frequency times depth over all binary trees with the
\* frequencies w at their leaves, which is the least cost of a prefix-free
\* binary code: every way of pairing is tried
MinCost(w) ==
    IF Len(w) <= 1 THEN 0
    ELSE Least({w[p[1]] + w[p[2]] + MinCost(Merged(w, p[1], p[2])) :
                  p \in {q \in (1..Len(w)) \X (1..Len(w)) : q[1] < q[2]}})

\* the frequencies of a table, as a sequence
WeightsOf(table) ==
    LET present == {i \in 1..Len(SymbolOrder) : SymbolOrder[i] \in DOMAIN table}
        kept == Ascending(present)
    IN  [k \in 1..Len(kept) |-> table[SymbolOrder[kept[k]]]]

RECURSIVE CodeCost(_, _)
\* the sum over the codebook of frequency times code length
CodeCost(codebook, table) ==
    IF codebook = <<>> THEN 0
    ELSE table[Head(codebook).key] * CodeLen(Head(codebook).value)
            + CodeCost(Tail(codebook), table)

\* the symbols of a codebook
CodebookKeys(codebook) == {codebook[i].key : i \in 1..Len(codebook)}

\* C18: for every frequency table, the codes read off the tree huffman
\* returns give every symbol of the table one code, and the sum over symbols
\* of frequency times code length is the least that any prefix-free binary
\* code for the table achieves, however the queue broke ties.
C18_HuffmanIsMinimumRedundancy ==
    (hf.pc = "huffman" /\ hf.h.returned) =>
        /\ ~hf.h.failed
        /\ LET codebook == generate_codes(hf.h.root, EmptyCode)
           IN  /\ CodebookKeys(codebook) = DOMAIN hf.table
               /\ Len(codebook) = Cardinality(DOMAIN hf.table)
               /\ CodeCost(codebook, hf.table) = MinCost(WeightsOf(hf.table))

\* huffman has returned the tree of a table of four symbols with uneven
\* frequencies, where some pairings cost more than others
C18_Witness ==
    /\ hf.pc = "huffman"
    /\ hf.h.returned
    /\ Cardinality(DOMAIN hf.table) = 4
    /\ \E s, t \in DOMAIN hf.table : hf.table[s] = 1 /\ hf.table[t] = 3
    /\ \E e \in {generate_codes(hf.h.root, EmptyCode)[i] : i \in 1..4} :
          CodeLen(e.value) = 3

---------------------------------------------------------------------------
\* dora (algorithms/problems.py)

\* the longest symbol sequence given to dora
MaxSeq == 2

\* the symbols the nodes of a graph carry
NodeSymbols == {SymbolOrder[i] : i \in 1..3}

\* graphs for dora: every node carries a symbol; the edges lie along the
\* line 0 - 1 - 2 ..., any of them missing, so that parts of the graph are
\* out of reach of the start
DoraGraphs ==
    {[edges |-> g.edges, desc |-> g.desc, weighted |-> g.weighted,
      weight |-> g.weight, data |-> d] :
        g \in {u \in UnweightedGraphs :
                 /\ ~u.desc
                 /\ \A e \in u.edges : \E n \in Nodes : e = {n, n + 1}},
        d \in [Nodes -> NodeSymbols]}

\* graph.get_node(node_id).get_data()
get_data(graph, node_id) == graph.data[node_id]

\* the symbol sequences over the symbols that occur in the graph
SymbolSequences(graph) ==
    UNION {[1..n -> {graph.data[x] : x \in Nodes}] : n \in 0..MaxSeq}

RECURSIVE CountSymbols(_, _, _)
\* the loop over valid_locations: one more for the symbol of each location
CountSymbols(freq_map, valid_locations, graph) ==
    IF valid_locations = <<>> THEN freq_map
    ELSE LET node_id == Head(valid_locations).key
             symbol == get_data(graph, node_id)
             current_freq == find(freq_map, symbol)
         IN  CountSymbols(IF current_freq /= None
                          THEN Put(freq_map, symbol, current_freq + 1)
                          ELSE Put(freq_map, symbol, 1),
                          Tail(valid_locations), graph)

RECURSIVE FillCodeMap(_, _)
\* code_map.insert_kv(symbol, code) for the leaves, in the order of the walk
FillCodeMap(code_map, codebook) ==
    IF codebook = <<>> THEN code_map
    ELSE FillCodeMap(Put(code_map, Head(codebook).key, Head(codebook).value),
                     Tail(codebook))

\* dora up to generate_codes(huffman_tree, ""); cs are the coefficients,
\* which the maps of this call all draw alike
DoraCodes(st) ==
    LET valid_locations == dijkstra_traversal(st.graph, st.start, st.cs)
        freq_map == CountSymbols(NewMap(st.cs[1], st.cs[2]), valid_locations,
                                 st.graph)
        huffman_tree == huffman(freq_map)
        codebook == generate_codes(huffman_tree.root, EmptyCode)
    IN  IF huffman_tree.failed
        THEN [st EXCEPT !.pc = "failed"]
        ELSE [st EXCEPT !.pc = "coded",
                        !.codebook = codebook,
                        !.code_map = FillCodeMap(@, codebook)]

RECURSIVE EncodeLoop_Prepend(_, _, _)
\* for symbol in symbol_sequence, with the bits of each code put in front of
\* those already there
EncodeLoop_Prepend(code_map, symbol_sequence, coded_sequence) ==
    IF symbol_sequence = <<>> THEN coded_sequence
    ELSE LET symbol_code == find(code_map, Head(symbol_sequence))
         IN  EncodeLoop_Prepend(code_map, Tail(symbol_sequence),
                                IF symbol_code /= None
                                THEN BitsOf(symbol_code) \o coded_sequence
                                ELSE coded_sequence)

RECURSIVE EncodeLoop(_, _, _)
\* for symbol in symbol_sequence: the bits of its code, if it has one
EncodeLoop(code_map, symbol_sequence, coded_sequence) ==
    IF symbol_sequence = <<>> THEN coded_sequence
    ELSE LET symbol_code == find(code_map, Head(symbol_sequence))
         IN  EncodeLoop(code_map, Tail(symbol_sequence),
                        IF symbol_code /= None
                        THEN coded_sequence \o BitsOf(symbol_code)
                        ELSE coded_sequence)

DoraInit ==
    /\ MapUnused /\ PQUnused
    /\ BloomUnused /\ BfsUnused /\ DijkstraUnused /\ ChainUnused
    /\ \E graph \in DoraGraphs, start \in Nodes, cs \in Coefs \X Coefs :
          hf = [pc |-> "call", graph |-> graph, start |-> start, cs |-> cs,
                codebook |-> <<>>, code_map |-> NewMap(cs[1], cs[2]),
                symbol_sequence |-> <<>>, coded_sequence |-> <<>>]

\* the frequencies, the tree and the codes
DoraBuild ==
    /\ hf.pc = "call"
    /\ hf' = DoraCodes(hf)
    /\ UNCHANGED <<mapVars, mapObs, pqVars, pqObs, pq2Vars, bloom, bfs, dj, cr>>

\* the encoding of the sequence, and the return
DoraEncode(symbol_sequence) ==
    /\ hf.pc = "coded"
    /\ hf' = [hf EXCEPT !.pc = "done",
                        !.symbol_sequence = symbol_sequence,
                        !.coded_sequence =
                            EncodeLoop(hf.code_map, symbol_sequence, <<>>)]
    /\ UNCHANGED <<mapVars, mapObs, pqVars, pqObs, pq2Vars, bloom, bfs, dj, cr>>

DoraNext ==
    \/ DoraBuild
    \/ \E symbol_sequence \in SymbolSequences(hf.graph) : DoraEncode(symbol_sequence)

\* one call of dora
SpecDora == DoraInit /\ [][DoraNext]_vars

\* the symbols carried by the nodes the start reaches
ReachableSymbols ==
    {hf.graph.data[n] : n \in Reachable(hf.graph, hf.start)}

\* s is the beginning of t
IsPrefix(s, t) == Len(s) <= Len(t) /\ SubSeq(t, 1, Len(s)) = s

\* C17: when the nodes reachable from start carry two distinct symbols or
\* more, the codebook has exactly one entry per symbol carried by a reachable
\* node, every code is a non-empty string of 0 and 1, and no code is the
\* beginning of another.
C17_CodebookIsPrefixFree ==
    (hf.pc \in {"coded", "done"} /\ Cardinality(ReachableSymbols) >= 2) =>
        /\ CodebookKeys(hf.codebook) = ReachableSymbols
        /\ Len(hf.codebook) = Cardinality(ReachableSymbols)
        /\ \A i \in 1..Len(hf.codebook) :
              /\ hf.codebook[i].value > EmptyCode
              /\ CodeLen(hf.codebook[i].value) >= 1
              /\ \A k \in 1..CodeLen(hf.codebook[i].value) :
                    BitsOf(hf.codebook[i].value)[k] \in {0, 1}
        /\ \A i, j \in 1..Len(hf.codebook) :
              (i /= j) => ~IsPrefix(BitsOf(hf.codebook[i].value),
                                    BitsOf(hf.codebook[j].value))

\* a codebook of three codes, for three symbols on three reachable nodes
C17_Witness ==
    /\ hf.pc = "coded"
    /\ Cardinality(ReachableSymbols) = 3
    /\ Len(hf.codebook) = 3
    /\ \E i \in 1..3 : CodeLen(hf.codebook[i].value) = 1

\* C19: when the nodes reachable from start all carry one symbol, dora does
\* not fail and its codebook has exactly one entry, for that symbol.
C19_SingleSymbol ==
    (Cardinality(ReachableSymbols) = 1) =>
        /\ hf.pc /= "failed"
        /\ (hf.pc \in {"coded", "done"}) =>
              /\ Len(hf.codebook) = 1
              /\ hf.codebook[1].key \in ReachableSymbols

\* dora has returned for two reachable nodes that carry the same symbol
C19_Witness ==
    /\ hf.pc = "done"
    /\ Cardinality(ReachableSymbols) = 1
    /\ Cardinality(Reachable(hf.graph, hf.start)) = 2
    /\ Len(hf.codebook) = 1
    /\ Len(hf.symbol_sequence) = 2

RECURSIVE CodeOf(_, _)
\* the code the codebook gives a symbol, first entry first; the empty string
\* for a symbol it has no entry for
CodeOf(codebook, symbol) ==
    IF codebook = <<>> THEN EmptyCode
    ELSE IF Head(codebook).key = symbol THEN Head(codebook).value
    ELSE CodeOf(Tail(codebook), symbol)

RECURSIVE Concatenation(_, _)
\* the codes of the symbols of a sequence, one after the other
Concatenation(codebook, symbol_sequence) ==
    IF symbol_sequence = <<>> THEN <<>>
    ELSE BitsOf(CodeOf(codebook, Head(symbol_sequence)))
            \o Concatenation(codebook, Tail(symbol_sequence))

\* C20: for every symbol sequence over the symbols that occur in the graph,
\* connected or not, every input symbol has a codebook entry and the bit
\* sequence is the concatenation, in input order, of the codes of the input
\* symbols, none of them dropped.
C20_EncodingIsConcatenation ==
    (hf.pc = "done") =>
        /\ \A i \in 1..Len(hf.symbol_sequence) :
              hf.symbol_sequence[i] \in CodebookKeys(hf.codebook)
        /\ hf.coded_sequence = Concatenation(hf.codebook, hf.symbol_sequence)


---------------------------------------------------------------------------
\* chain_reaction (algorithms/problems.py)

\* the lists handed to chain_reaction hold 1..NumCompounds compounds
NumCompounds == 3

\* the centres and the radii the compounds are drawn from: the distances
\* between the centres are 0, 1, 2 and the square root of 5
Points == {<<0, 0>>, <<0, 1>>, <<2, 1>>}
Radii == {0, 2}

\* Compound(x, y, r, cid) (structures/entry.py)
Compound(x, y, r, cid) == [x |-> x, y |-> y, r |-> r, cid |-> cid]

\* the orders of the ids 0..n-1 that start anywhere and go round upwards or
\* downwards: every order for n <= 3
IdOrders(n) ==
    {[i \in 1..n |-> (s + (d * (i - 1))) % n] : s \in 0..(n - 1), d \in {1, n - 1}}

\* the lists of n compounds with the ids 0..n-1
CompoundLists ==
    UNION {{[i \in 1..n |-> Compound(p[i][1], p[i][2], r[i], ids[i])] :
               p \in [1..n -> Points], r \in [1..n -> Radii],
               ids \in IdOrders(n)} :
           n \in 1..NumCompounds}

\* distance <= radius, where distance is the square root of the whole number
\* below and radius a whole number that is not negative
InRadius(c0, c1, radius) ==
    ((c0.x - c1.x) * (c0.x - c1.x)) + ((c0.y - c1.y) * (c0.y - c1.y))
        <= radius * radius

\* the locals of a call. The DynamicArray objects live in arrays, and the
\* adjacency_list maps a compound id to the position of its array there, so
\* that an append through one reference is seen through every other one.
\* built keeps the arrays as the two build loops left them and counts the
\* reactions_count of every origin evaluated so far.
ChainCall(compounds, c) ==
    [pc |-> "build", compounds |-> compounds, n |-> Len(compounds),
     max_compound |-> -1, max_reactions |-> -1,
     adjacency_list |-> NewMap(c[1], c[2]), arrays |-> <<>>,
     i |-> 0, built |-> <<>>, counts |-> <<>>]

\* adjacency_list.insert_kv(cid, DynamicArray())
NewArray(st, cid) ==
    [st EXCEPT !.arrays = Append(@, <<>>),
               !.adjacency_list = Put(@, NodeKey(cid), Len(st.arrays) + 1)]

\* if adjacency_list.find(cid) is None: adjacency_list.insert_kv(cid, DynamicArray())
EnsureArray(st, cid) ==
    IF find(st.adjacency_list, NodeKey(cid)) = None THEN NewArray(st, cid) ELSE st

\* adjacency_list.find(cid).append(other)
AppendTo(st, cid, other) ==
    [st EXCEPT !.arrays[find(st.adjacency_list, NodeKey(cid))] = Append(@, other)]

\* the two ifs of the inner loop body, for c0 and c1
Pair(st, c0, c1) ==
    IF InRadius(c0, c1, c1.r)
    THEN AppendTo(EnsureArray(IF InRadius(c0, c1, c0.r)
                              THEN AppendTo(st, c0.cid, c1.cid) ELSE st,
                              c1.cid),
                  c1.cid, c0.cid)
    ELSE IF InRadius(c0, c1, c0.r) THEN AppendTo(st, c0.cid, c1.cid) ELSE st

RECURSIVE BuildInner_OnlyLater(_, _, _)
\* for j in range(n), passing over the compounds before compounds[i] as if
\* their iterations had already recorded both directions for good
BuildInner_OnlyLater(st, i, j) ==
    IF j = st.n THEN st
    ELSE IF i < j
         THEN BuildInner_OnlyLater(Pair(st, At(st.compounds, i),
                                        At(st.compounds, j)),
                                   i, j + 1)
         ELSE BuildInner_OnlyLater(st, i, j + 1)

RECURSIVE BuildInner(_, _, _)
\* for j in range(n)
BuildInner(st, i, j) ==
    IF j = st.n THEN st
    ELSE IF i /= j
         THEN BuildInner(Pair(st, At(st.compounds, i), At(st.compounds, j)),
                         i, j + 1)
         ELSE BuildInner(st, i, j + 1)

RECURSIVE BuildOuter(_, _)
\* for i in range(n): a fresh array for compounds[i], then the inner loop
BuildOuter(st, i) ==
    IF i = st.n THEN st
    ELSE BuildOuter(BuildInner(NewArray(st, At(st.compounds, i).cid), i, 0),
                    i + 1)

\* ---- bfs_for_compounds, on its locals w = [visited, reactions_count,
\* queue] and the arrays it shares with every other run ----

\* the lines before the while loop
CompoundsCall(st, start_id) ==
    [visited |-> [k \in 1..st.n |-> k = start_id + 1],
     reactions_count |-> 1,
     queue |-> insert_fifo(PriorityQueue, start_id),
     arrays |-> st.arrays]

RECURSIVE MergeTriggers(_, _, _, _, _)
\* for j in range(neighbour_triggers.get_size()): append triggered to
\* neighbours unless it is there; na and ta are the positions of neighbours
\* and neighbour_triggers, stop the range fixed when the loop started
MergeTriggers(w, na, ta, j, stop) ==
    IF j = stop THEN w
    ELSE LET triggered == At(w.arrays[ta], j)
             already_triggered ==
                 \E k \in 0..(Len(w.arrays[na]) - 1) :
                     At(w.arrays[na], k) = triggered
         IN  MergeTriggers(IF already_triggered THEN w
                           ELSE [w EXCEPT !.arrays[na] = Append(@, triggered)],
                           na, ta, j + 1, stop)

\* the body of the if, without the queue.insert_fifo(neighbour_id)
Trigger_NoEnqueue(w, adjacency_list, na, neighbour_id) ==
    MergeTriggers([w EXCEPT !.visited[neighbour_id + 1] = TRUE,
                            !.reactions_count = @ + 1],
                  na, find(adjacency_list, NodeKey(neighbour_id)), 0,
                  Len(w.arrays[find(adjacency_list, NodeKey(neighbour_id))]))

\* the body of `if ... visited.get_at(neighbour_id) is False`
Trigger(w, adjacency_list, na, neighbour_id) ==
    MergeTriggers([w EXCEPT !.visited[neighbour_id + 1] = TRUE,
                            !.queue = insert_fifo(@, neighbour_id),
                            !.reactions_count = @ + 1],
                  na, find(adjacency_list, NodeKey(neighbour_id)), 0,
                  Len(w.arrays[find(adjacency_list, NodeKey(neighbour_id))]))

RECURSIVE ScanNeighbours(_, _, _, _, _)
\* for i in range(neighbours.get_size()), the range fixed when the loop
\* started
ScanNeighbours(w, adjacency_list, na, i, stop) ==
    IF i = stop THEN w
    ELSE ScanNeighbours(
            IF /\ At(w.arrays[na], i) \in 0..(Len(w.visited) - 1)
               /\ At(w.visited, At(w.arrays[na], i)) = FALSE
            THEN Trigger(w, adjacency_list, na, At(w.arrays[na], i))
            ELSE w,
            adjacency_list, na, i + 1, stop)

\* one pass of the while loop: remove_min, then the scan of its neighbours
Detonate(w, adjacency_list, r) ==
    ScanNeighbours([w EXCEPT !.queue.arr = r.arr], adjacency_list,
                   find(adjacency_list, NodeKey(r.ret)), 0,
                   Len(w.arrays[find(adjacency_list, NodeKey(r.ret))]))

RECURSIVE CompoundsLoop(_, _)
\* while queue.get_size() > 0
CompoundsLoop(w, adjacency_list) ==
    IF w.queue.arr = <<>> THEN w
    ELSE CompoundsLoop(Detonate(w, adjacency_list, remove_min(w.queue.arr)),
                       adjacency_list)

\* gives the locals at the return: reactions_count and the arrays as the run
\* left them
bfs_for_compounds(st, start_id) ==
    CompoundsLoop(CompoundsCall(st, start_id), st.adjacency_list)

\* Python's min on two ints
Min(x, y) == IF x <= y THEN x ELSE y

\* the if / elif, keeping the later origin on a tie
UpdateMax_TieTakesLater(st, origin_id, reactions_count) ==
    IF reactions_count >= st.max_reactions
    THEN [st EXCEPT !.max_reactions = reactions_count,
                    !.max_compound = origin_id]
    ELSE st

\* the if / elif after the call of bfs_for_compounds
UpdateMax(st, origin_id, reactions_count) ==
    IF reactions_count > st.max_reactions
    THEN [st EXCEPT !.max_reactions = reactions_count,
                    !.max_compound = origin_id]
    ELSE IF reactions_count = st.max_reactions
         THEN [st EXCEPT !.max_compound = Min(@, origin_id)]
         ELSE st

\* one pass of the last loop, for the origin compounds[i]
Evaluate(st, origin_id, w) ==
    [UpdateMax(st, origin_id, w.reactions_count) EXCEPT
        !.arrays = w.arrays,
        !.i = @ + 1,
        !.counts = Append(@, [origin |-> origin_id,
                              count |-> w.reactions_count,
                              appended |-> st.arrays /= st.built])]

ChainInit ==
    /\ MapUnused /\ PQUnused
    /\ BloomUnused /\ BfsUnused /\ DijkstraUnused /\ DoraUnused
    /\ \E compounds \in CompoundLists, c \in Coefs :
          cr = ChainCall(compounds, <<c, c>>)

\* the two nested loops that build the adjacency list
ChainBuild ==
    /\ cr.pc = "build"
    /\ \E st \in {BuildOuter(cr, 0)} :
          cr' = [st EXCEPT !.pc = "loop", !.built = st.arrays]
    /\ UNCHANGED <<mapVars, mapObs, pqVars, pqObs, pq2Vars, bloom, bfs, dj, hf>>

\* for i in range(n): one origin
ChainOrigin ==
    /\ cr.pc = "loop"
    /\ cr.i < cr.n
    /\ \E w \in {bfs_for_compounds(cr, At(cr.compounds, cr.i).cid)} :
          cr' = Evaluate(cr, At(cr.compounds, cr.i).cid, w)
    /\ UNCHANGED <<mapVars, mapObs, pqVars, pqObs, pq2Vars, bloom, bfs, dj, hf>>

\* return max_compound
ChainReturn ==
    /\ cr.pc = "loop"
    /\ cr.i = cr.n
    /\ cr' = [cr EXCEPT !.pc = "done"]
    /\ UNCHANGED <<mapVars, mapObs, pqVars, pqObs, pq2Vars, bloom, bfs, dj, hf>>

ChainNext ==
    \/ ChainBuild
    \/ ChainOrigin
    \/ ChainReturn

\* one call of chain_reaction
SpecChain == ChainInit /\ [][ChainNext]_vars


---------------------------------------------------------------------------
\* Properties of chain_reaction

\* c0 triggers c1, for every two compounds at different places of the list
TriggerPairs(compounds) ==
    {<<compounds[p[1]].cid, compounds[p[2]].cid>> : p \in
        {q \in (1..Len(compounds)) \X (1..Len(compounds)) :
            /\ q[1] /= q[2]
            /\ InRadius(compounds[q[1]], compounds[q[2]], compounds[q[1]].r)}}

RECURSIVE Triggered(_, _)
\* the compounds the relation reaches from those of S, S included
Triggered(rel, S) ==
    LET T == S \cup {p[2] : p \in {q \in rel : q[1] \in S}}
    IN  IF T = S THEN S ELSE Triggered(rel, T)

\* the number of compounds that go off when origin is set off
ReactionCount(rel, origin) == Cardinality(Triggered(rel, {origin}))

\* the compounds whose reaction count no other exceeds
Maximal(compounds) ==
    {x \in 0..(Len(compounds) - 1) :
        \A y \in 0..(Len(compounds) - 1) :
            ReactionCount(TriggerPairs(compounds), y)
                <= ReactionCount(TriggerPairs(compounds), x)}

\* C21: for compounds with the ids 0..n-1 in any order, chain_reaction
\* returns a compound whose reaction count (the compounds it sets off
\* through chains of any length, itself included) is maximal, and the
\* smallest id among those with the maximal count.
C21_ReturnsSmallestMaximal ==
    (cr.pc = "done") =>
        /\ cr.max_compound \in Maximal(cr.compounds)
        /\ \A x \in Maximal(cr.compounds) : cr.max_compound <= x

\* a call has returned where two compounds tie for the maximum, one compound
\* stays below it, and the list presented the tied compound with the larger
\* id first
C21_Witness ==
    /\ cr.pc = "done"
    /\ Cardinality(Maximal(cr.compounds)) = 2
    /\ cr.n = 3
    /\ \E i, j \in 1..cr.n :
          /\ i < j
          /\ cr.compounds[i].cid > cr.compounds[j].cid
          /\ {cr.compounds[i].cid, cr.compounds[j].cid} = Maximal(cr.compounds)
    /\ cr.max_reactions > 1

\* the trigger relation as the two build loops left it in the arrays
BuiltPairs ==
    {p \in (0..(cr.n - 1)) \X (0..(cr.n - 1)) :
        \E k \in 1..Len(cr.built[find(cr.adjacency_list, NodeKey(p[1]))]) :
            cr.built[find(cr.adjacency_list, NodeKey(p[1]))][k] = p[2]}

\* C22: the reaction count computed for an origin is the number of compounds
\* the trigger relation, as originally built, reaches from it through chains
\* of any length, the origin included; and it is the count the same run
\* gives on the arrays as built, whatever the runs of earlier origins have
\* appended to them. (Stated of the count recorded last: every count is the
\* last one in the state its run leads to.)
C22_CountIsTransitive ==
    (cr.pc \in {"loop", "done"} /\ cr.counts /= <<>>) =>
        \E last \in {cr.counts[Len(cr.counts)]}, rel \in {BuiltPairs} :
            /\ last.count = ReactionCount(rel, last.origin)
            /\ last.count =
                  bfs_for_compounds([cr EXCEPT !.arrays = cr.built],
                                    last.origin).reactions_count

\* an origin A has been evaluated on arrays that earlier runs had appended
\* to, where A triggers B, B triggers C and A does not trigger C
C22_Witness ==
    /\ cr.pc \in {"loop", "done"}
    /\ \E k \in 1..Len(cr.counts) :
          /\ cr.counts[k].appended
          /\ cr.counts[k].count = 3
          /\ \E B, C \in 0..(cr.n - 1) :
                /\ C /= cr.counts[k].origin
                /\ <<cr.counts[k].origin, B>> \in BuiltPairs
                /\ <<B, C>> \in BuiltPairs
                /\ <<cr.counts[k].origin, C>> \notin BuiltPairs


---------------------------------------------------------------------------
\* Invariants of the Map, under SpecMap

is_empty(m) == m.size = 0

\* C23: in every state reached by insert, insert_kv, __setitem__ and remove
\* calls, get_size() is the number of entries stored in the buckets, is never
\* negative, and is_empty() is true exactly when no entry is stored.
C23_SizeCountsEntries ==
    /\ get_size(Self) = Len(AllEntries(Self))
    /\ get_size(Self) >= 0
    /\ is_empty(Self) <=> (AllEntries(Self) = <<>>)

\* C24: in every state reached by insert, insert_kv, __setitem__ and remove
\* calls, resizes included, no two stored entries have the same key, and
\* get_keys() lists every key that is stored exactly once and no other.
C24_OneEntryPerKey ==
    \E entries \in {AllEntries(Self)}, listed \in {get_keys(Self)} :
        /\ \A i, j \in 1..Len(entries) :
              entries[i].key = entries[j].key => i = j
        /\ \A k \in Keys :
              Cardinality({i \in 1..Len(listed) : listed[i] = k})
                = IF find(Self, k) /= None THEN 1 ELSE 0

\* get_keys has just listed two or more keys of a map that has been resized
\* and holds two entries in one bucket
C24_Witness ==
    /\ op.name = "get_keys"
    /\ Len(keys) >= 2
    /\ keys = get_keys(Self)
    /\ resizes_done >= 1
    /\ \E i \in 0..(capacity - 1) : Len(buckets[i].chain) >= 2

\* C25: after every completed insert, insert_kv, __setitem__ and remove, an
\* insert that resized included, the stored load factor is the size counter
\* divided by the capacity.
C25_LoadFactorIsSizeOverCapacity ==
    SameLoad(load_factor, <<size, capacity>>)

\* an insert has just resized, placed a new key and left a load factor that
\* is neither 0 nor 1
C25_Witness ==
    /\ op.name \in {"insert", "insert_kv"}
    /\ rz /= <<>>
    /\ ret = None
    /\ size >= 2
    /\ size < capacity
    /\ SameLoad(load_factor, <<size, capacity>>)

\* C26: the capacity is the initial capacity while no resize has happened
\* and the resizes_done-th prime of the schedule afterwards; every resize
\* that runs advances resizes_done by one, so it takes exactly the next
\* prime, and the capacity grows strictly.
C26_CapacityFollowsSchedule ==
    /\ [](capacity = IF resizes_done = 0 THEN InitCapacity
                     ELSE Primes[resizes_done])
    /\ [][/\ resizes_done' = resizes_done + Len(rz')
          /\ (rz' /= <<>>) => capacity' > capacity
          /\ (rz' = <<>>) => capacity' = capacity]_vars

\* an insert has just taken the last prime of the schedule
C26_Witness ==
    /\ op.name \in {"insert", "insert_kv"}
    /\ rz /= <<>>
    /\ resizes_done = Len(Primes)
    /\ capacity = Primes[Len(Primes)]
    /\ capacity > InitCapacity


---------------------------------------------------------------------------
\* Heap order under mixed use, under SpecMixed

\* C27: after every completed insert, insert_fifo, remove_min and ip_build,
\* in any interleaving and with equal priorities, the array is in heap order:
\* for every index i > 0 the priority at (i - 1) // 2 is <= the priority at i.
C27_HeapOrderUnderMixing ==
    \A i \in 1..(Len(arr) - 1) :
        At(arr, (i - 1) \div 2).key <= At(arr, i).key

\* a remove_min has just run on a queue that both insert and insert_fifo
\* have filled, and what is left has three entries or more, two of them
\* with the same priority, and one from insert_fifo above the priorities
\* insert is given
C27_Witness ==
    /\ pq_op = "remove_min"
    /\ max_priority > MaxPriority + 1
    /\ Len(arr) >= 3
    /\ \E i, j \in 1..Len(arr) : i /= j /\ arr[i].key = arr[j].key
    /\ \E i \in 1..Len(arr) : arr[i].key > MaxPriority


---------------------------------------------------------------------------
\* The bits of the BloomFilter, under SpecBloom

\* the number of bits of the filter that are set
SetBits == Cardinality({i \in 1..Len(bloom.filter.data) : bloom.filter.data[i] = 1})

\* C28: insert(key) sets the bit at the key's hash index and leaves every
\* other bit as it was, and contains changes no bit; so a bit that is 1 stays
\* 1, and the number of set bits never exceeds the number of insert calls.
C28_InsertSetsOneBit ==
    /\ [][(bloom'.filter.size /= bloom.filter.size) =>
            \E key \in Keys :
                /\ bloom'.added = bloom.added \cup {key}
                /\ bloom'.filter.data =
                      [bloom.filter.data EXCEPT
                          ![bloom_hash(bloom.filter, key) + 1] = 1]]_vars
    /\ [][(bloom'.filter.size = bloom.filter.size) =>
            bloom'.filter.data = bloom.filter.data]_vars
    /\ [][\A i \in 1..Len(bloom.filter.data) :
            bloom.filter.data[i] = 1 => bloom'.filter.data[i] = 1]_vars
    /\ [](SetBits <= bloom.filter.size)

\* contains has just answered on a filter where three inserts have set two
\* bits: one insert found its bit set already
C28_Witness ==
    /\ bloom.pc = "live"
    /\ bloom.asked /= NoKey
    /\ bloom.filter.size = 3
    /\ SetBits = 2


---------------------------------------------------------------------------
\* The visited order of bfs_traversal, under SpecBfs

\* C29: the visited order a call returns starts with the origin, holds no
\* node twice, lists the nodes in non-decreasing number of edges from the
\* origin, and ends with the goal when the goal was reached: nothing is
\* dequeued after the goal.
C29_VisitedOrderIsBreadthFirst ==
    (bfs.pc = "done") =>
        /\ bfs.visited_order /= <<>>
        /\ bfs.visited_order[1] = bfs.origin
        /\ \A i, j \in 1..Len(bfs.visited_order) :
              /\ (bfs.visited_order[i] = bfs.visited_order[j]) => i = j
              /\ (i < j) => Hops(bfs.graph, bfs.origin, bfs.visited_order[i])
                              <= Hops(bfs.graph, bfs.origin, bfs.visited_order[j])
        /\ (bfs.goal \in BfsVisited) =>
              bfs.visited_order[Len(bfs.visited_order)] = bfs.goal

\* a call has returned at its goal, a neighbour of the origin, while another
\* node that was enqueued is still waiting in the queue
C29_Witness ==
    /\ bfs.pc = "done"
    /\ bfs.goal \in BfsVisited
    /\ Len(bfs.visited_order) = 2
    /\ bfs.queue.arr /= <<>>

---------------------------------------------------------------------------
\* Stale queue entries of dijkstra_traversal, under SpecDijkstra

\* the nodes remove_min has returned so far
Extracted == {dj.extracted[i] : i \in 1..Len(dj.extracted)}

\* C30: with edge weights that are not negative, the distance the map
\* records for a node never changes once the node has been extracted from
\* the queue, and extracting a further entry of a node extracted before
\* changes no distance and inserts nothing into the queue.
C30_StaleEntriesAreHarmless ==
    [][/\ \A x \in Extracted :
             find(dj'.distance_map, NodeKey(x)) = find(dj.distance_map, NodeKey(x))
       /\ (dj.queue /= <<>> /\ remove_min(dj.queue).ret \in Extracted) =>
             /\ \A x \in Nodes :
                   find(dj'.distance_map, NodeKey(x))
                      = find(dj.distance_map, NodeKey(x))
             /\ dj'.queue = remove_min(dj.queue).arr]_vars

\* a node has come out of the queue three times: with its final distance,
\* with the longer distance it had been given first, and with the infinite
\* distance every node starts with
C30_Witness ==
    /\ dj.pc \in {"loop", "done"}
    /\ \E i, j, k \in 1..Len(dj.extracted) :
          /\ i < j /\ j < k
          /\ dj.extracted[i] = dj.extracted[j]
          /\ dj.extracted[j] = dj.extracted[k]
          /\ dj.extracted[i] /= dj.origin

---------------------------------------------------------------------------
\* Termination of dijkstra_traversal, under SpecDijkstra

RECURSIVE SumDistances(_, _)
\* the distances the map records for the nodes, added up
SumDistances(distance_map, nodes) ==
    IF nodes = <<>> THEN 0
    ELSE find(distance_map, NodeKey(Head(nodes)))
            + SumDistances(distance_map, Tail(nodes))

\* what is left to do: the entries waiting in the queue, and the room the
\* recorded distances still have to fall
Remaining(st) == Len(st.queue) + SumDistances(st.distance_map, NodesOf(st.graph))

\* the nodes whose recorded distance is smaller in st1 than in st0
Improved(st0, st1) ==
    {x \in Nodes : find(st1.distance_map, NodeKey(x))
                      < find(st0.distance_map, NodeKey(x))}

\* C31: dijkstra_traversal terminates. No recorded distance is negative or
\* ever grows; a pass of the loop takes one entry out of the queue and puts
\* one in for each node whose distance strictly fell on that pass, and for
\* no other, so the number of waiting entries plus the sum of the recorded
\* distances falls on every pass and cannot fall below zero; once the queue
\* is empty the call returns.
C31_DijkstraTerminates ==
    /\ [](dj.pc = "loop" =>
             /\ \A x \in Nodes : find(dj.distance_map, NodeKey(x)) >= 0
             /\ Remaining(dj) >= Len(dj.queue))
    /\ [][(dj.pc = "loop" /\ dj.queue /= <<>>) =>
             /\ dj'.pc = "loop"
             /\ \A x \in Nodes : find(dj'.distance_map, NodeKey(x))
                                    <= find(dj.distance_map, NodeKey(x))
             /\ Len(dj'.queue)
                   = (Len(dj.queue) - 1) + Cardinality(Improved(dj, dj'))
             /\ Remaining(dj') < Remaining(dj)]_vars
    /\ [][(dj.pc = "loop" /\ dj.queue = <<>>) => dj'.pc = "done"]_vars

\* a call has returned on a graph with an edge of weight zero at the origin
\* (edges lead both ways), after more passes than the graph has nodes: nodes
\* were inserted again, and the queue still ran empty
C31_Witness ==
    /\ dj.pc = "done"
    /\ dj.queue = <<>>
    /\ Len(dj.extracted) > Cardinality(Nodes)
    /\ dj.graph.weighted
    /\ \E e \in dj.graph.edges :
          /\ dj.graph.weight[e] = 0
          /\ dj.origin \in e

---------------------------------------------------------------------------
\* The adjacency lists chain_reaction builds, under SpecChain

\* C32: once the two build loops are over, every compound has a neighbour
\* list, and for compounds A and B the id of B occurs in the list of A
\* exactly when A and B are distinct and the distance between their centres
\* is at most the radius of A, whatever the radius of B: the lists are the
\* directed trigger relation, although the list of a compound is created
\* anew in its own iteration after earlier iterations may have appended to
\* an earlier list of it.
C32_AdjacencyIsTriggerRelation ==
    (cr.pc \in {"loop", "done"}) =>
        /\ \A i \in 1..cr.n :
              find(cr.adjacency_list, NodeKey(cr.compounds[i].cid))
                 \in 1..Len(cr.built)
        /\ BuiltPairs = TriggerPairs(cr.compounds)

\* the build loops have just ended for compounds where B comes before A in
\* the list and A triggers B but B does not trigger A: the iteration of B
\* appended to a list of A that the iteration of A then replaced, leaving
\* more arrays than compounds
C32_Witness ==
    /\ cr.pc = "loop"
    /\ cr.i = 0
    /\ Len(cr.built) > cr.n
    /\ \E iB, iA \in 1..cr.n :
          /\ iB < iA
          /\ InRadius(cr.compounds[iA], cr.compounds[iB], cr.compounds[iA].r)
          /\ ~InRadius(cr.compounds[iA], cr.compounds[iB], cr.compounds[iB].r)
          /\ <<cr.compounds[iA].cid, cr.compounds[iB].cid>> \in BuiltPairs
          /\ <<cr.compounds[iB].cid, cr.compounds[iA].cid>> \notin BuiltPairs

---------------------------------------------------------------------------
\* Reading back what dora returns, under SpecDora

RECURSIVE Decode(_, _, _, _)
\* the symbols read from bits, from index i upwards: bits are taken one by
\* one onto current until current is the code of a codebook entry (the first
\* such entry), whose symbol is then read and current started afresh; bits
\* left over at the end that are no code read as NoSymbol
Decode(codebook, bits, i, current) ==
    IF i = Len(bits)
    THEN IF current = EmptyCode THEN <<>> ELSE <<NoSymbol>>
    ELSE LET code == AddBit(current, get_at(bits, i))
             hits == {k \in 1..Len(codebook) : codebook[k].value = code}
         IN  IF hits = {}
             THEN Decode(codebook, bits, i + 1, code)
             ELSE <<codebook[CHOOSE k \in hits : \A h \in hits : k <= h].key>>
                     \o Decode(codebook, bits, i + 1, EmptyCode)

\* C33: when the nodes reachable from start carry two distinct symbols or
\* more and the symbol sequence is over those symbols, reading the returned
\* bits from index 0 with the returned codebook, a symbol as soon as the bits
\* taken so far are a code, gives back exactly the symbol sequence.
C33_DecodingRestoresInput ==
    (/\ hf.pc = "done"
     /\ Cardinality(ReachableSymbols) >= 2
     /\ \A i \in 1..Len(hf.symbol_sequence) :
           hf.symbol_sequence[i] \in ReachableSymbols) =>
        Decode(hf.codebook, hf.coded_sequence, 0, EmptyCode) = hf.symbol_sequence

\* dora has returned for three reachable symbols and a sequence of two
\* different symbols whose codes differ in length: three bits, read back as
\* the two symbols
C33_Witness ==
    /\ hf.pc = "done"
    /\ Cardinality(ReachableSymbols) = 3
    /\ Len(hf.symbol_sequence) = 2
    /\ hf.symbol_sequence[1] /= hf.symbol_sequence[2]
    /\ \A i \in 1..2 : hf.symbol_sequence[i] \in ReachableSymbols
    /\ Len(hf.coded_sequence) = 3
    /\ Decode(hf.codebook, hf.coded_sequence, 0, EmptyCode) = hf.symbol_sequence

=============================================================================
